---- MODULE Spec2Model ----
(***************************************************************************)
(* Caption / metadata resolution of the Cruxz YouTube Transcript API.      *)
(*                                                                         *)
(* Two request handlers serve /captions: the single-file service           *)
(* (TranscriptFetch.py, prefix TF_) and the modular application            *)
(* (app/api/youtube.py + app/services/youtube_service.py, prefix API_).    *)
(* Upstream answers (HTTP responses, library results) are inputs chosen    *)
(* when the call is made.                                                  *)
(*                                                                         *)
(* Encoding of Python values:                                              *)
(*   None / absent key  -> <<>>, a present value v -> <<v>>                *)
(*   an f-string URL    -> the tuple of its pieces                         *)
(*   a raising property -> the RAISE sentinel of its type                  *)
(***************************************************************************)
EXTENDS Integers, Sequences, FiniteSets, TLC

VARIABLES
    pc,               \* position of the request in its handler
    req,              \* the request: handler, video_id, language, timestamps, summarize
    YOUTUBE_API_KEY,  \* TRUE iff the YouTube Data API credential is configured
    result,           \* get_video_metadata: the dict being filled in
    metadata,         \* <<>> until get_video_metadata returned, then <<record>>
    calls,            \* outbound calls issued so far, in order
    catalog,          \* caption tracks the upstream reported, in upstream order
    transcript,       \* the selected track: <<>> or <<track>>
    language_name,    \* TF_get_captions: display name of the selected track
    payload,          \* the answer to the raw caption fetch: <<>> or <<payload>>
    parsed_captions,  \* <<>>, or <<how fetch_and_parse_captions / transcript.fetch ended>>
    response,         \* <<>> while running, then <<the HTTP response>>
    player_data,      \* get_video_details: <<>> or <<the answer of the player call>>
    attempts,         \* outcomes of the attempts of the retried OpenAI calls, in order
    transcribed_text, \* transcribe_file: <<>> or <<the text>>
    API_KEY,          \* the service's key: <<>> when the environment variable is unset
    upload_dir,       \* the files of the upload directory: path -> content
    uploaded,         \* the upload requests: their position and what they were answered
    frames,           \* concurrent requests: the locals of each running handler
    results           \* concurrent requests: the `result` dicts, by the scope holding them

vars == <<pc, req, YOUTUBE_API_KEY, result, metadata, calls, catalog,
          transcript, language_name, payload, parsed_captions, response,
          player_data, attempts, transcribed_text,
          API_KEY, upload_dir, uploaded, frames, results>>

\* the state of the upload directory and of the concurrent requests
others == <<API_KEY, upload_dir, uploaded, frames, results>>

None == <<>>

\* no service key read, an empty upload directory, no concurrent request
NoOthers ==
    /\ API_KEY = None
    /\ upload_dir = <<>>
    /\ uploaded = <<>>
    /\ frames = <<>>
    /\ results = <<>>

Get(opt, default) == IF opt = None THEN default ELSE opt[1]

RAISE == "__raise__"

RAISE_URL == <<"__raise__">>

\* How a Python call ends: it returns a value, or an exception of class
\* exc leaves it.
Ret(v) == [raised |-> FALSE, ret |-> v, exc |-> ""]

Raise(e) == [raised |-> TRUE, ret |-> None, exc |-> e]

Raised == Raise("Exception")

(***************************************************************************)
(* Bounds and input domains                                                *)
(***************************************************************************)
VideoIds == {"dQw4w9WgXcQ", "9bZkp7q19f0"}

\* longest caption catalog the upstream reports
MaxTracks == 2

\* most <text> elements in a caption payload
MaxElems == 2

----------------------------------------------------------------------------
(***************************************************************************)
(* Metadata providers (TranscriptFetch.py)                                 *)
(***************************************************************************)

\* f"https://img.youtube.com/vi/{video_id}/maxresdefault.jpg"
DefaultThumbnail(video_id) ==
    <<"https://img.youtube.com/vi/", video_id, "/maxresdefault.jpg">>

\* f"https://www.youtube.com/channel/{channel_id}/about"
ChannelAbout(channel_id) ==
    <<"https://www.youtube.com/channel/", channel_id, "/about">>

NoChannelLogo == <<"No Channel Logo Available">>

MetadataKeys == {"video_title", "thumbnail", "channel_name", "channel_logo"}

\* the `result` dict get_video_metadata starts from
DefaultMetadata(video_id) ==
    [video_title  |-> "Unknown Title",
     thumbnail    |-> DefaultThumbnail(video_id),
     channel_name |-> "Unknown Channel",
     channel_logo |-> NoChannelLogo]

\* Responses of the YouTube Data API v3 endpoint: a transport exception, a
\* non-200 status, a body that is not the expected JSON shape, an empty
\* `items`, or a snippet with any of its keys missing.
ApiThumbnailSets == {{}, {"default"}, {"high", "medium"}, {"maxres", "default"}}

ApiSnippets ==
    [title        : {None, <<"API title">>},
     channelTitle : {None, <<"API channel">>},
     channelId    : {None, <<"">>, <<"UCapi">>},
     thumbnails   : ApiThumbnailSets]

NoSnippet ==
    [title |-> None, channelTitle |-> None, channelId |-> None, thumbnails |-> {}]

ApiResponses ==
    {[exc |-> TRUE,  status_code |-> 0,   shape_ok |-> FALSE, items |-> <<>>]}
    \cup {[exc |-> FALSE, status_code |-> s, shape_ok |-> TRUE, items |-> <<>>] : s \in {403, 404}}
    \cup {[exc |-> FALSE, status_code |-> 200, shape_ok |-> FALSE, items |-> <<NoSnippet>>]}
    \cup {[exc |-> FALSE, status_code |-> 200, shape_ok |-> TRUE, items |-> <<>>]}
    \cup {[exc |-> FALSE, status_code |-> 200, shape_ok |-> TRUE, items |-> <<s>>] : s \in ApiSnippets}

\* thumbnails.get('maxres', {}).get('url') or ... or the convention URL
ApiThumbnailUrl(video_id, thumbnails) ==
    IF "maxres" \in thumbnails THEN <<"https://i.ytimg.com/api/", "maxres">>
    ELSE IF "high" \in thumbnails THEN <<"https://i.ytimg.com/api/", "high">>
    ELSE IF "medium" \in thumbnails THEN <<"https://i.ytimg.com/api/", "medium">>
    ELSE IF "default" \in thumbnails THEN <<"https://i.ytimg.com/api/", "default">>
    ELSE DefaultThumbnail(video_id)

\* the try block of get_video_metadata_api: requests.get, response.json()
\* and the reads of data['items'][0]['snippet']
get_video_metadata_api_try(video_id, resp) ==
    IF resp.exc THEN Raised                   \* requests.get raised
    ELSE IF resp.status_code = 200 THEN
        IF ~resp.shape_ok THEN Raised          \* json() / KeyError / TypeError
        ELSE IF resp.items = <<>> THEN Ret(None)
        ELSE LET snippet == resp.items[1]
                 channel_id == Get(snippet.channelId, "")
             IN Ret(<<[video_title  |-> Get(snippet.title, "Unknown Title"),
                       thumbnail    |-> ApiThumbnailUrl(video_id, snippet.thumbnails),
                       channel_name |-> Get(snippet.channelTitle, "Unknown Channel"),
                       channel_logo |-> IF channel_id # "" THEN ChannelAbout(channel_id)
                                        ELSE NoChannelLogo]>>)
    ELSE Ret(None)

\* get_video_metadata_api: the credential check, then the try block with
\* `except Exception: return None`
get_video_metadata_api(video_id, key, resp) ==
    IF ~key THEN Ret(None)
    ELSE LET r == get_video_metadata_api_try(video_id, resp)
         IN IF r.raised THEN Ret(None) ELSE r

\* Responses of the oEmbed endpoint.  author_url is kept as the list of its
\* '/'-separated pieces, so that split('/')[-1] is its last element.
OEmbedResponses ==
    {[exc |-> TRUE, status_code |-> 0, title |-> None, author_name |-> None, author_url |-> <<>>]}
    \cup {[exc |-> FALSE, status_code |-> s, title |-> None, author_name |-> None, author_url |-> <<>>]
             : s \in {401, 404}}
    \cup [exc : {FALSE}, status_code : {200},
          title : {None, <<"oEmbed title">>},
          author_name : {None, <<"oEmbed author">>},
          author_url : {<<>>, <<"https:", "", "www.youtube.com", "@oembed">>}]

\* the try block of get_video_metadata_oembed
get_video_metadata_oembed_try(video_id, resp) ==
    IF resp.exc THEN Raised
    ELSE IF resp.status_code = 200 THEN
        LET channel_url == resp.author_url
        IN Ret(<<[video_title  |-> Get(resp.title, "Unknown Title"),
                  thumbnail    |-> DefaultThumbnail(video_id),
                  channel_name |-> Get(resp.author_name, "Unknown Channel"),
                  channel_logo |-> IF channel_url # <<>>
                                   THEN ChannelAbout(channel_url[Len(channel_url)])
                                   ELSE NoChannelLogo]>>)
    ELSE Ret(None)

\* get_video_metadata_oembed without its except clause
get_video_metadata_oembed_uncaught(video_id, resp) ==
    get_video_metadata_oembed_try(video_id, resp)

\* get_video_metadata_oembed: the try block with `except Exception: return None`
get_video_metadata_oembed(video_id, resp) ==
    LET r == get_video_metadata_oembed_try(video_id, resp)
    IN IF r.raised THEN Ret(None) ELSE r

\* Responses of the watch page: title_match is the group captured by
\* r'<title>(.*?) - YouTube</title>', or None when the pattern is absent.
PageResponses ==
    {[exc |-> TRUE, status_code |-> 0, title_match |-> None]}
    \cup {[exc |-> FALSE, status_code |-> 429, title_match |-> None]}
    \cup [exc : {FALSE}, status_code : {200},
          title_match : {None, <<"Page title">>, <<"Unknown Title">>}]

\* the try block of get_video_title_from_page
get_video_title_from_page_try(resp) ==
    IF resp.exc THEN Raised
    ELSE IF resp.status_code = 200 /\ resp.title_match # None THEN Ret(<<resp.title_match[1]>>)
    ELSE Ret(<<"Unknown Title">>)

\* get_video_title_from_page: the try block with
\* `except Exception: return "Unknown Title"`
get_video_title_from_page(resp) ==
    LET r == get_video_title_from_page_try(resp)
    IN IF r.raised THEN Ret(<<"Unknown Title">>) ELSE r

\* What the pytube YouTube object does: the constructor raises or not, and
\* each property returns a value (possibly empty) or raises.
PytubeOutcomes ==
    {[ctor_ok |-> FALSE, title |-> RAISE, thumbnail_url |-> RAISE_URL,
      author |-> RAISE, channel_id |-> RAISE]}
    \cup [ctor_ok : {TRUE},
          title : {RAISE, "pytube title", "Unknown Title"},
          thumbnail_url : {RAISE_URL, <<>>, <<"https://i.ytimg.com/pytube/", "sddefault">>},
          author : {RAISE, "", "pytube author"},
          channel_id : {RAISE, "", "UCpytube"}]

\* the outer try block of get_video_metadata around the pytube object: the
\* dict `result` after the four property reads, each in its own try/except
pytube_fill(res, yt) ==
    IF ~yt.ctor_ok THEN res                    \* YouTube(...) raised: outer except
    ELSE [video_title  |-> IF yt.title # RAISE THEN yt.title ELSE res.video_title,
          thumbnail    |-> IF yt.thumbnail_url # RAISE_URL /\ yt.thumbnail_url # <<>>
                           THEN yt.thumbnail_url ELSE res.thumbnail,
          channel_name |-> IF yt.author # RAISE /\ yt.author # ""
                           THEN yt.author ELSE res.channel_name,
          channel_logo |-> IF yt.channel_id # RAISE /\ yt.channel_id # ""
                           THEN ChannelAbout(yt.channel_id) ELSE res.channel_logo]

\* one entry of the call log
Call(name, ok) == [name |-> name, ok |-> ok]

----------------------------------------------------------------------------
(***************************************************************************)
(* get_video_metadata (TranscriptFetch.py), one action per provider        *)
(***************************************************************************)

RestUnchangedMeta ==
    UNCHANGED <<req, YOUTUBE_API_KEY, catalog, transcript, language_name, payload,
                parsed_captions, response, player_data, attempts, transcribed_text,
                others>>

\* result = {...defaults...}
get_video_metadata_begin ==
    /\ pc = "meta_start"
    /\ result' = DefaultMetadata(req.video_id)
    /\ pc' = "meta_api"
    /\ UNCHANGED <<metadata, calls>>
    /\ RestUnchangedMeta

\* get_video_metadata's API step without the `return api_data`
get_video_metadata_try_api_no_return ==
    /\ pc = "meta_api"
    /\ YOUTUBE_API_KEY
    /\ \E resp \in ApiResponses :
         LET r == get_video_metadata_api(req.video_id, YOUTUBE_API_KEY, resp)
         IN /\ calls' = Append(calls, Call("api", ~r.raised /\ r.ret # None))
            /\ pc' = "meta_pytube"
    /\ UNCHANGED <<result, metadata>>
    /\ RestUnchangedMeta

\* get_video_metadata's API step with neither `if YOUTUBE_API_KEY:` nor the
\* `if not YOUTUBE_API_KEY: return None` of get_video_metadata_api
get_video_metadata_try_api_unconditional ==
    /\ pc = "meta_api"
    /\ \E resp \in ApiResponses :
         LET r == get_video_metadata_api(req.video_id, TRUE, resp)
             api_data == r.ret
         IN /\ calls' = Append(calls, Call("api", api_data # None))
            /\ IF api_data # None
               THEN /\ metadata' = <<api_data[1]>>
                    /\ pc' = "meta_done"
               ELSE /\ pc' = "meta_pytube"
                    /\ UNCHANGED metadata
    /\ UNCHANGED result
    /\ RestUnchangedMeta

\* if YOUTUBE_API_KEY: api_data = get_video_metadata_api(video_id)
\*                      if api_data: return api_data
get_video_metadata_try_api ==
    /\ pc = "meta_api"
    /\ \/ /\ ~YOUTUBE_API_KEY
          /\ pc' = "meta_pytube"
          /\ UNCHANGED <<metadata, calls>>
       \/ /\ YOUTUBE_API_KEY
          /\ \E resp \in ApiResponses :
               LET r == get_video_metadata_api(req.video_id, YOUTUBE_API_KEY, resp)
                   api_data == r.ret
               IN /\ calls' = Append(calls, Call("api", ~r.raised /\ api_data # None))
                  /\ IF r.raised
                     THEN /\ pc' = "meta_raised"
                          /\ UNCHANGED metadata
                     ELSE IF api_data # None
                     THEN /\ metadata' = <<api_data[1]>>
                          /\ pc' = "meta_done"
                     ELSE /\ pc' = "meta_pytube"
                          /\ UNCHANGED metadata
    /\ UNCHANGED result
    /\ RestUnchangedMeta

\* the pytube step returning only when the thumbnail, channel name and
\* channel id reads succeeded as well as the title read
get_video_metadata_try_pytube_all_fields ==
    /\ pc = "meta_pytube"
    /\ \E yt \in PytubeOutcomes :
         LET filled == pytube_fill(result, yt)
             found  == /\ yt.ctor_ok
                       /\ filled.video_title # "Unknown Title"
                       /\ yt.thumbnail_url # RAISE_URL
                       /\ yt.author # RAISE
                       /\ yt.channel_id # RAISE
         IN /\ result' = filled
            /\ calls' = Append(calls, Call("pytube", found))
            /\ IF found
               THEN /\ metadata' = <<filled>>
                    /\ pc' = "meta_done"
               ELSE /\ pc' = "meta_oembed"
                    /\ UNCHANGED metadata
    /\ RestUnchangedMeta

\* try: yt = YouTube(...); the four property reads;
\*      if result["video_title"] != "Unknown Title": return result
\* except Exception: (logged)
get_video_metadata_try_pytube ==
    /\ pc = "meta_pytube"
    /\ \E yt \in PytubeOutcomes :
         LET filled == pytube_fill(result, yt)
             found  == yt.ctor_ok /\ filled.video_title # "Unknown Title"
         IN /\ result' = filled
            /\ calls' = Append(calls, Call("pytube", found))
            /\ IF found
               THEN /\ metadata' = <<filled>>
                    /\ pc' = "meta_done"
               ELSE /\ pc' = "meta_oembed"
                    /\ UNCHANGED metadata
    /\ RestUnchangedMeta

\* oembed_data = get_video_metadata_oembed(video_id); if oembed_data: return oembed_data
get_video_metadata_try_oembed ==
    /\ pc = "meta_oembed"
    /\ \E resp \in OEmbedResponses :
         LET r == get_video_metadata_oembed(req.video_id, resp)
             oembed_data == r.ret
         IN /\ calls' = Append(calls, Call("oembed", ~r.raised /\ oembed_data # None))
            /\ IF r.raised
               THEN /\ pc' = "meta_raised"
                    /\ UNCHANGED metadata
               ELSE IF oembed_data # None
               THEN /\ metadata' = <<oembed_data[1]>>
                    /\ pc' = "meta_done"
               ELSE /\ pc' = "meta_page"
                    /\ UNCHANGED metadata
    /\ UNCHANGED result
    /\ RestUnchangedMeta

\* if result["video_title"] == "Unknown Title":
\*     title = get_video_title_from_page(video_id)
\*     if title != "Unknown Title": result["video_title"] = title
\* return result
get_video_metadata_try_page ==
    /\ pc = "meta_page"
    /\ IF result.video_title = "Unknown Title"
       THEN \E resp \in PageResponses :
              LET r == get_video_title_from_page(resp)
                  title == Get(r.ret, "Unknown Title")
              IN /\ calls' = Append(calls, Call("page", ~r.raised /\ title # "Unknown Title"))
                 /\ IF r.raised
                    THEN /\ pc' = "meta_raised"
                         /\ UNCHANGED <<result, metadata>>
                    ELSE /\ result' = IF title # "Unknown Title"
                                      THEN [result EXCEPT !.video_title = title]
                                      ELSE result
                         /\ metadata' = <<result'>>
                         /\ pc' = "meta_done"
       ELSE /\ metadata' = <<result>>
            /\ pc' = "meta_done"
            /\ UNCHANGED <<result, calls>>
    /\ RestUnchangedMeta

\* requests.get(api_url), requests.get(oembed_url) and requests.get(url) are
\* called without a timeout: when the endpoint never answers, the call never
\* returns and get_video_metadata goes no further
get_video_metadata_blocked ==
    /\ \/ /\ pc = "meta_api"
          /\ YOUTUBE_API_KEY
          /\ calls' = Append(calls, Call("api", FALSE))
       \/ /\ pc = "meta_oembed"
          /\ calls' = Append(calls, Call("oembed", FALSE))
       \/ /\ pc = "meta_page"
          /\ result.video_title = "Unknown Title"
          /\ calls' = Append(calls, Call("page", FALSE))
    /\ pc' = "blocked"
    /\ UNCHANGED <<result, metadata>>
    /\ RestUnchangedMeta

\* The metadata resolver on its own: one call of get_video_metadata.
InitMeta ==
    /\ pc = "meta_start"
    /\ req \in [handler : {"TranscriptFetch"}, video_id : VideoIds, language : {None},
                timestamps : {FALSE}, summarize : {FALSE}]
    /\ YOUTUBE_API_KEY \in BOOLEAN
    /\ result = DefaultMetadata("")
    /\ metadata = None
    /\ calls = <<>>
    /\ catalog = <<>>
    /\ transcript = None
    /\ language_name = <<>>
    /\ payload = None
    /\ parsed_captions = None
    /\ response = None
    /\ player_data = None
    /\ attempts = <<>>
    /\ transcribed_text = None
    /\ NoOthers

NextMeta ==
    \/ get_video_metadata_begin
    \/ get_video_metadata_try_api
    \/ get_video_metadata_try_pytube
    \/ get_video_metadata_try_oembed
    \/ get_video_metadata_try_page
    \/ get_video_metadata_blocked

SpecMeta == InitMeta /\ [][NextMeta]_vars

----------------------------------------------------------------------------
(***************************************************************************)
(* Caption tracks                                                          *)
(***************************************************************************)

LanguageCodes == {"en", "fr", "hi"}

\* requested languages: absent, a language catalogs carry, and a language
\* no catalog carries
RequestedLanguages == {None, <<"en">>, <<"ja">>}

LanguageNames ==
    [c \in LanguageCodes \cup {"ja"} |->
        CASE c = "en" -> "English" [] c = "fr" -> "French"
          [] c = "hi" -> "Hindi"   [] OTHER   -> "Japanese"]

AutoSuffix == " (auto-generated)"

\* One captionTracks entry as the platform reports it.  kind is "asr" for an
\* automatic track; the platform's display name of an automatic track may
\* or may not already carry the suffix.
TrackShapes ==
    {[languageCode |-> c, name |-> <<LanguageNames[c]>>, kind |-> "manual"] : c \in LanguageCodes}
    \cup {[languageCode |-> c, name |-> <<LanguageNames[c]>>, kind |-> "asr"] : c \in {"en"}}
    \cup {[languageCode |-> "en", name |-> <<LanguageNames["en"], AutoSuffix>>, kind |-> "asr"]}

\* the fetch locator of the i-th track of a catalog
BaseUrl(i) == <<"https://www.youtube.com/api/timedtext?track=", ToString(i)>>

WithLocators(shapes) ==
    [i \in 1..Len(shapes) |->
        [languageCode |-> shapes[i].languageCode, name |-> shapes[i].name,
         kind |-> shapes[i].kind, baseUrl |-> BaseUrl(i)]]

\* every catalog of at most MaxTracks tracks, in upstream order
Catalogs ==
    {WithLocators(sh) : sh \in UNION {[1..n -> TrackShapes] : n \in 0..MaxTracks}}

\* dict[key] = value on a dict kept as the sequence of its values in
\* insertion order: a new key is appended, a known key keeps its place and
\* takes the new value
DictPut(d, t) ==
    IF \E i \in 1..Len(d) : d[i].languageCode = t.languageCode
    THEN LET i == CHOOSE i \in 1..Len(d) : d[i].languageCode = t.languageCode
         IN [d EXCEPT ![i] = t]
    ELSE Append(d, t)

RECURSIVE DictOf(_)
DictOf(tracks) ==
    IF tracks = <<>> THEN <<>>
    ELSE DictPut(DictOf(SubSeq(tracks, 1, Len(tracks) - 1)), tracks[Len(tracks)])

IsGenerated(t) == t.kind = "asr"

IsManual(t) == t.kind # "asr"

\* transcript_list = ytt_api.list_transcripts(video_id): the library files
\* every track under its language code, automatic tracks in
\* _generated_transcripts and all others in _manually_created_transcripts
TranscriptList(tracks) ==
    [_manually_created_transcripts |-> DictOf(SelectSeq(tracks, IsManual)),
     _generated_transcripts        |-> DictOf(SelectSeq(tracks, IsGenerated))]

Lookup(d, code) ==
    IF \E i \in 1..Len(d) : d[i].languageCode = code
    THEN <<d[CHOOSE i \in 1..Len(d) : d[i].languageCode = code]>>
    ELSE None

\* transcript_list.find_transcript(language_codes): for each code in turn,
\* the manually created transcript of that code, else the generated one;
\* NoTranscriptFound when no code matches
RECURSIVE find_transcript(_, _)
find_transcript(transcript_list, language_codes) ==
    IF language_codes = <<>> THEN Raise("NoTranscriptFound")
    ELSE LET code == Head(language_codes)
             m == Lookup(transcript_list._manually_created_transcripts, code)
             g == Lookup(transcript_list._generated_transcripts, code)
         IN IF m # None THEN Ret(m)
            ELSE IF g # None THEN Ret(g)
            ELSE find_transcript(transcript_list, Tail(language_codes))

\* the source languages tried for translation
TranslationCandidates == <<"en", "es", "fr", "de">>

\* transcript.translate(language): the same track, served in `language`
Translate(t, language) ==
    [languageCode |-> language,
     name         |-> <<LanguageNames[language]>>,
     kind         |-> t.kind,
     baseUrl      |-> t.baseUrl \o <<"&tlang=", language>>]


----------------------------------------------------------------------------
(***************************************************************************)
(* Timed-text payloads and their parsing (app/services/youtube_service.py) *)
(***************************************************************************)

\* A string is the sequence of its pieces; these pieces occur in caption
\* text.  "&#39;" is the escaped apostrophe left in the text after XML
\* decoding, "\n" a line break.
Apostrophe == "'"

EscapedApostrophe == "&#39;"

Newline == "\n"

Space == " "

\* text content of a <text> element: None for an element without content
ElementTexts ==
    {None, <<<<"Hello">>>>, <<<<"world">>>>,
     <<<<"it", EscapedApostrophe, "s">>>>, <<<<"two", Newline, "lines">>>>}

\* values of the start and dur attributes: absent, or the attribute string
StartValues == {None, <<"1.2">>, <<"abc">>}

DurValues == {None, <<"2.0">>, <<"1,5">>}

\* float(s), in tenths of a second; ValueError for a string that is no number
float(s) ==
    CASE s = "0"   -> Ret(<<0>>)
      [] s = "0.0" -> Ret(<<0>>)
      [] s = "1.2" -> Ret(<<12>>)
      [] s = "2.0" -> Ret(<<20>>)
      [] OTHER     -> Raise("ValueError")

\* children of the payload's root element
Elements ==
    [tag : {"text"}, start : StartValues, dur : DurValues, text : ElementTexts]
    \cup {[tag |-> "p", start |-> None, dur |-> None, text |-> <<<<"Hello">>>>]}

\* What requests.get(base_url) gives: it raises, or answers with a status
\* and a body; the body is well-formed XML with the listed children of its
\* root, or it is not XML.
HttpStatuses == {200, 404, 503}

FetchRaises == [exc |-> TRUE, status_code |-> 0, well_formed |-> FALSE, elements |-> <<>>]

NotXml(status) == [exc |-> FALSE, status_code |-> status, well_formed |-> FALSE, elements |-> <<>>]

Xml(elements) == [exc |-> FALSE, status_code |-> 200, well_formed |-> TRUE, elements |-> elements]

Payloads ==
    {FetchRaises}
    \cup {NotXml(st) : st \in HttpStatuses}
    \cup {Xml(els) : els \in UNION {[1..n -> Elements] : n \in 0..MaxElems}}

\* the dict built for one <text> element, or the exception float() raises
ParseElement(el) ==
    LET start == float(Get(el.start, "0"))
        dur   == float(Get(el.dur, "0"))
    IN IF start.raised THEN start
       ELSE IF dur.raised THEN dur
       ELSE Ret(<<[start |-> start.ret[1], duration |-> dur.ret[1],
                   text |-> Get(el.text, <<>>)]>>)

\* the list comprehension over root.findall("text")
RECURSIVE ParseElements(_)
ParseElements(els) ==
    IF els = <<>> THEN Ret(<<>>)
    ELSE LET first == ParseElement(Head(els))
             rest  == ParseElements(Tail(els))
         IN IF first.raised THEN first
            ELSE IF rest.raised THEN rest
            ELSE Ret(first.ret \o rest.ret)

IsTextElement(el) == el.tag = "text"

\* " ".join(texts)
RECURSIVE Join(_)
Join(texts) ==
    IF texts = <<>> THEN <<>>
    ELSE IF Len(texts) = 1 THEN texts[1]
    ELSE texts[1] \o <<Space>> \o Join(Tail(texts))

\* s.replace(old, new), old and new single pieces
Replace(s, old, new) == [i \in 1..Len(s) |-> IF s[i] = old THEN new ELSE s[i]]

\* the filter keeping every segment, those without text included
HasText_or_empty(seg) == TRUE

HasText(seg) == seg.text # <<>>

RECURSIVE Texts(_)
Texts(segs) == IF segs = <<>> THEN <<>> ELSE <<Head(segs).text>> \o Texts(Tail(segs))

\* fetch_and_parse_captions leaving the segments without text out of the
\* timestamped list as well
fetch_and_parse_captions_drop_empty(p, with_timestamps) ==
    IF p.exc THEN Raise("ConnectionError")
    ELSE IF ~p.well_formed THEN Raise("ParseError")
    ELSE LET parsed == ParseElements(SelectSeq(p.elements, IsTextElement))
         IN IF parsed.raised THEN parsed
            ELSE IF with_timestamps THEN Ret(SelectSeq(parsed.ret, HasText))
            ELSE LET concatenated_text == Join(Texts(SelectSeq(parsed.ret, HasText)))
                 IN Ret(Replace(Replace(concatenated_text, EscapedApostrophe, Apostrophe),
                                Newline, Space))

\* YouTubeService.fetch_and_parse_captions(base_url, with_timestamps) for
\* the answer p of requests.get: the status code is not looked at
fetch_and_parse_captions(p, with_timestamps) ==
    IF p.exc THEN Raise("ConnectionError")
    ELSE IF ~p.well_formed THEN Raise("ParseError")       \* ET.fromstring
    ELSE LET parsed == ParseElements(SelectSeq(p.elements, IsTextElement))
         IN IF parsed.raised THEN parsed
            ELSE IF with_timestamps THEN Ret(parsed.ret)
            ELSE LET concatenated_text == Join(Texts(SelectSeq(parsed.ret, HasText)))
                 IN Ret(Replace(Replace(concatenated_text, EscapedApostrophe, Apostrophe),
                                Newline, Space))


----------------------------------------------------------------------------
(***************************************************************************)
(* HTTP responses                                                          *)
(***************************************************************************)

\* A response: the status code and the JSON body, absent keys as None.
\* `error` is the body's 'error' (JSONResponse) or 'detail' (HTTPException).
NoResponse ==
    [status_code |-> 0, error |-> None, metadata |-> None, available_languages |-> None,
     languageCode |-> None, languageName |-> None, captions |-> None,
     timestamped_captions |-> None, summary |-> None, token_usage |-> None,
     filename |-> None, text |-> None]

NoCaptionsMessage == <<"No captions available for this video.">>

LanguageMessage(language) == <<"No captions available for the selected language: ", language>>

\* raise HTTPException(status_code=500, detail=str(e))
InternalError(exc) == [NoResponse EXCEPT !.status_code = 500, !.error = <<<<"str(e)", exc>>>>]

----------------------------------------------------------------------------
(***************************************************************************)
(* GET /captions of TranscriptFetch.py                                     *)
(***************************************************************************)

\* what transcript.fetch() hands back: it raises, or it returns segments
FetchedTranscripts ==
    { <<>>,
      <<[start |-> 0, duration |-> 12, text |-> <<"Hello">>],
        [start |-> 12, duration |-> 20, text |-> <<"world">>]>>,
      <<[start |-> 0, duration |-> 12, text |-> <<>>],
        [start |-> 12, duration |-> 20, text |-> <<"two", Newline, "lines">>]>>,
      <<[start |-> 0, duration |-> 20, text |-> <<"it", EscapedApostrophe, "s">>]>> }

TF_RestUnchanged ==
    UNCHANGED <<req, YOUTUBE_API_KEY, result, metadata, payload,
                player_data, attempts, transcribed_text, others>>

\* the not-found JSONResponse of TranscriptFetch.get_captions
TF_NotFound(message, md) ==
    [NoResponse EXCEPT !.status_code = 404, !.error = <<message>>, !.metadata = <<md>>]

\* timestamps = ...; proxies = ...; try: metadata = get_video_metadata(video_id)
TF_get_captions_begin ==
    /\ pc = "start"
    /\ req.handler = "TranscriptFetch"
    /\ pc' = "meta_start"
    /\ UNCHANGED <<calls, catalog, transcript, language_name, parsed_captions, response>>
    /\ TF_RestUnchanged

\* video_title = metadata["video_title"] ...;
\* try: transcript_list = ytt_api.list_transcripts(video_id, proxies=proxies)
\* except (TranscriptsDisabled, NoTranscriptFound): 404
TF_list_transcripts ==
    /\ pc \in {"meta_done", "meta_raised"}
    /\ req.handler = "TranscriptFetch"
    /\ IF pc = "meta_raised"
       THEN /\ response' = <<InternalError("MetadataError")>>
            /\ pc' = "done"
            /\ UNCHANGED <<calls, catalog>>
       ELSE \/ /\ calls' = Append(calls, Call("catalog", FALSE))     \* the call raises
               /\ response' = <<InternalError("CouldNotRetrieveTranscript")>>
               /\ pc' = "done"
               /\ UNCHANGED catalog
            \/ \E tracks \in Catalogs :
                 /\ calls' = Append(calls, Call("catalog", TRUE))
                 /\ catalog' = tracks
                 /\ IF tracks = <<>>                                 \* TranscriptsDisabled
                    THEN /\ response' = <<TF_NotFound(NoCaptionsMessage, metadata[1])>>
                         /\ pc' = "done"
                    ELSE /\ pc' = "tf_select"
                         /\ UNCHANGED response
    /\ UNCHANGED <<transcript, language_name, parsed_captions>>
    /\ TF_RestUnchanged

\* one entry of available_languages
LanguageEntry(code, name) == [languageCode |-> code, name |-> name]

RECURSIVE TF_ManualEntries(_)
TF_ManualEntries(ts) ==
    IF ts = <<>> THEN <<>>
    ELSE <<LanguageEntry(Head(ts).languageCode, Head(ts).name)>> \o TF_ManualEntries(Tail(ts))

RECURSIVE TF_GeneratedEntries(_)
TF_GeneratedEntries(ts) ==
    IF ts = <<>> THEN <<>>
    ELSE <<LanguageEntry(Head(ts).languageCode, Head(ts).name \o <<AutoSuffix>>)>>
         \o TF_GeneratedEntries(Tail(ts))

\* the two loops filling available_languages
TF_available_languages(transcript_list) ==
    TF_ManualEntries(transcript_list._manually_created_transcripts)
    \o TF_GeneratedEntries(transcript_list._generated_transcripts)

\* if not language: return {... "available_languages": available_languages}
TF_list_available ==
    /\ pc = "tf_select"
    /\ req.language \in {None, <<"">>}
    /\ response' = <<[NoResponse EXCEPT
                        !.status_code = 200,
                        !.metadata = metadata,
                        !.available_languages = <<TF_available_languages(TranscriptList(catalog))>>]>>
    /\ pc' = "done"
    /\ UNCHANGED <<calls, catalog, transcript, language_name, parsed_captions>>
    /\ TF_RestUnchanged

\* try: transcript = transcript_list.find_transcript([language]) ...
\* except NoTranscriptFound:
\*     try: transcript = transcript_list.find_transcript(["en", "es", "fr", "de"])
\* is_generated = hasattr(transcript, '_is_generated') and transcript._is_generated:
\* whether the installed library's Transcript carries that attribute is has_attr
TF_find_transcript ==
    /\ pc = "tf_select"
    /\ req.language \notin {None, <<"">>}
    /\ \E has_attr \in BOOLEAN :
       LET language == req.language[1]
           exact == find_transcript(TranscriptList(catalog), <<language>>)
           source == find_transcript(TranscriptList(catalog), TranslationCandidates)
       IN IF ~exact.raised
          THEN /\ transcript' = exact.ret
               /\ language_name' = IF has_attr /\ IsGenerated(exact.ret[1])
                                   THEN exact.ret[1].name \o <<AutoSuffix>>
                                   ELSE exact.ret[1].name
               /\ pc' = "tf_fetch"
               /\ UNCHANGED response
          ELSE IF ~source.raised
          THEN /\ transcript' = source.ret
               /\ pc' = "tf_translate"
               /\ UNCHANGED <<language_name, response>>
          ELSE /\ response' = <<TF_NotFound(LanguageMessage(language), metadata[1])>>
               /\ pc' = "done"
               /\ UNCHANGED <<transcript, language_name>>
    /\ UNCHANGED <<calls, catalog, parsed_captions>>
    /\ TF_RestUnchanged

\*     transcript = transcript.translate(language)
\*     language_name = transcript.language + " (translated)"
\* except Exception: 404
TF_translate_again ==
    /\ pc = "tf_translate"
    /\ LET language == req.language[1]
       IN \/ /\ calls' = Append(calls, Call("translate", TRUE))
             /\ transcript' = <<Translate(transcript[1], language)>>
             /\ language_name' = Translate(transcript[1], language).name \o <<" (translated)">>
             /\ pc' = "tf_fetch"
             /\ UNCHANGED response
          \/ /\ calls' = Append(calls, Call("translate", FALSE))
             /\ Len(calls) < 8
             /\ pc' = "tf_translate"
             /\ UNCHANGED <<transcript, language_name, response>>
    /\ UNCHANGED <<catalog, parsed_captions>>
    /\ TF_RestUnchanged

\* the translation step going on to fetch the source track when the
\* translation failed
TF_translate_fetch_anyway ==
    /\ pc = "tf_translate"
    /\ LET language == req.language[1]
       IN \/ /\ calls' = Append(calls, Call("translate", TRUE))
             /\ transcript' = <<Translate(transcript[1], language)>>
             /\ language_name' = Translate(transcript[1], language).name \o <<" (translated)">>
          \/ /\ calls' = Append(calls, Call("translate", FALSE))
             /\ UNCHANGED <<transcript, language_name>>
    /\ pc' = "tf_fetch"
    /\ UNCHANGED <<catalog, parsed_captions, response>>
    /\ TF_RestUnchanged

TF_translate ==
    /\ pc = "tf_translate"
    /\ LET language == req.language[1]
       IN \/ /\ calls' = Append(calls, Call("translate", TRUE))
             /\ transcript' = <<Translate(transcript[1], language)>>
             /\ language_name' = Translate(transcript[1], language).name \o <<" (translated)">>
             /\ pc' = "tf_fetch"
             /\ UNCHANGED response
          \/ /\ calls' = Append(calls, Call("translate", FALSE))     \* not translatable
             /\ response' = <<TF_NotFound(LanguageMessage(language), metadata[1])>>
             /\ pc' = "done"
             /\ UNCHANGED <<transcript, language_name>>
    /\ UNCHANGED <<catalog, parsed_captions>>
    /\ TF_RestUnchanged

\* formatted_transcript = [{"start": segment.start, "duration": segment.duration,
\*                          "text": segment.text} for segment in transcript_data]
RECURSIVE TF_formatted_transcript(_)
TF_formatted_transcript(transcript_data) ==
    IF transcript_data = <<>> THEN <<>>
    ELSE <<[start    |-> Head(transcript_data).start,
            duration |-> Head(transcript_data).duration,
            text     |-> Head(transcript_data).text]>>
         \o TF_formatted_transcript(Tail(transcript_data))

\* the two renderings of transcript_data at the end of get_captions
TF_format(transcript_data, timestamps) ==
    IF timestamps THEN TF_formatted_transcript(transcript_data)
    ELSE Replace(Join(Texts(SelectSeq(transcript_data, HasText))), Newline, Space)

\* the dict returned with the captions, in either rendering
TF_captions_response(md, language, name, timestamps, transcript_data) ==
    [NoResponse EXCEPT
        !.status_code = 200,
        !.metadata = md,
        !.languageCode = language,
        !.languageName = <<name>>,
        !.timestamped_captions =
            IF timestamps THEN <<TF_format(transcript_data, TRUE)>> ELSE None,
        !.captions =
            IF timestamps THEN None ELSE <<TF_format(transcript_data, FALSE)>>]

\* transcript_data = transcript.fetch(); if timestamps: ... else: ...
TF_fetch ==
    /\ pc = "tf_fetch"
    /\ \/ /\ calls' = Append(calls, Call("fetch", FALSE))            \* fetch() raises
          /\ parsed_captions' = <<Raise("FetchError")>>
          /\ response' = <<InternalError("FetchError")>>
       \/ \E transcript_data \in FetchedTranscripts :
            /\ calls' = Append(calls, Call("fetch", TRUE))
            /\ parsed_captions' = <<Ret(transcript_data)>>
            /\ response' = <<TF_captions_response(metadata, req.language, language_name,
                                                   req.timestamps, transcript_data)>>
    /\ pc' = "done"
    /\ UNCHANGED <<catalog, transcript, language_name>>
    /\ TF_RestUnchanged


----------------------------------------------------------------------------
(***************************************************************************)
(* OpenAIService (app/services/openai_service.py): summarize_text and      *)
(* transcribe_audio, both wrapped in tenacity's @retry                     *)
(***************************************************************************)

\* stop=stop_after_attempt(3)
stop_after_attempt == 3

\* how one attempt of a call to the OpenAI API ends: it returns, or it
\* raises openai.error.RateLimitError, or it raises something else
OpenAIOutcomes == {"ok", "RateLimitError", "APIError"}

\* a retry condition matching every exception
retry_if_exception_type_Exception(exc) == TRUE

\* retry=retry_if_exception_type(openai.error.RateLimitError)
retry_if_exception_type(exc) == exc = "RateLimitError"

Attempt(name, outcome) == [name |-> name, outcome |-> outcome]

\* the number of the attempt the decorated function `name` is about to make
AttemptNumber(name) ==
    Cardinality({i \in 1..Len(attempts) : attempts[i].name = name}) + 1

\* what @retry does when attempt attempt_number ended with outcome: the
\* value is returned; an exception the condition does not match is raised
\* again; a matching one leads to another attempt, or to tenacity's
\* RetryError once the stop condition holds (reraise is not set)
retry(attempt_number, outcome) ==
    IF outcome = "ok" THEN "return"
    ELSE IF ~retry_if_exception_type(outcome) THEN "raise"
    ELSE IF attempt_number >= stop_after_attempt THEN "RetryError"
    ELSE "retry"

\* the exception that leaves the decorated function
RetryException(attempt_number, outcome) ==
    IF retry(attempt_number, outcome) = "RetryError" THEN "RetryError" ELSE outcome

----------------------------------------------------------------------------
(***************************************************************************)
(* GET /captions/ of the modular application                               *)
(* (app/api/youtube.py, app/services/youtube_service.py)                   *)
(***************************************************************************)

\* videoDetails of a player response.  A thumbnail list holds, per entry,
\* the entry's 'url' or None for an entry without that key.
VideoDetailsShapes ==
    { [title |-> <<"Player title">>, author |-> <<"Player author">>,
       thumbnails |-> << <<"https://i.ytimg.com/player/lo">>, <<"https://i.ytimg.com/player/hi">> >>,
       channel_thumbnails |-> << <<"https://yt3.ggpht.com/logo">> >>],
      [title |-> None, author |-> None, thumbnails |-> <<>>, channel_thumbnails |-> <<>>],
      [title |-> <<"Player title">>, author |-> None, thumbnails |-> <<>>,
       channel_thumbnails |-> << <<"https://yt3.ggpht.com/logo">> >>],
      [title |-> <<"Player title">>, author |-> <<"Player author">>,
       thumbnails |-> << <<"https://i.ytimg.com/player/lo">>, None >>,
       channel_thumbnails |-> <<>>] }

\* what self.client.player(video_id=video_id) gives
PlayerResponses ==
    {[exc |-> TRUE, videoDetails |-> CHOOSE d \in VideoDetailsShapes : d.title = None,
      captionTracks |-> <<>>]}
    \cup [exc : {FALSE}, videoDetails : VideoDetailsShapes, captionTracks : Catalogs]

\* thumbnails[-1]["url"] if thumbnails else default
LastUrl(thumbnails, default) ==
    IF thumbnails = <<>> THEN Ret(<<default>>)
    ELSE IF thumbnails[Len(thumbnails)] = None THEN Raise("KeyError")
    ELSE Ret(<<<<thumbnails[Len(thumbnails)][1]>>>>)

\* YouTubeService.get_video_details: the metadata dict with captions_data,
\* or the exception it logs and re-raises
get_video_details(video_id, player) ==
    IF player.exc THEN Raise("RequestError")
    ELSE LET video_details == player.videoDetails
             thumbnail == LastUrl(video_details.thumbnails, <<"No Thumbnail Available">>)
             channel_logo == LastUrl(video_details.channel_thumbnails, NoChannelLogo)
         IN IF thumbnail.raised THEN thumbnail
            ELSE IF channel_logo.raised THEN channel_logo
            ELSE Ret(<<[video_id      |-> video_id,
                        video_title   |-> Get(video_details.title, "Unknown Title"),
                        channel_name  |-> Get(video_details.author, "Unknown Channel"),
                        thumbnail     |-> thumbnail.ret[1],
                        channel_logo  |-> channel_logo.ret[1],
                        captions_data |-> player.captionTracks]>>)

\* the four metadata fields the handler copies into its responses
MetadataOf(video_details) ==
    [video_title  |-> video_details.video_title,
     thumbnail    |-> video_details.thumbnail,
     channel_name |-> video_details.channel_name,
     channel_logo |-> video_details.channel_logo]

\* raise HTTPException(status_code=404, detail=...)
API_NotFound(message) == [NoResponse EXCEPT !.status_code = 404, !.error = <<message>>]

API_RestUnchanged ==
    UNCHANGED <<req, YOUTUBE_API_KEY, result, language_name, transcribed_text, others>>

\* video_details = youtube_service.get_video_details(video_id)
\* captions_data = video_details.get("captions_data", [])
\* if not captions_data: raise HTTPException(404)
API_get_video_details ==
    /\ pc = "start"
    /\ req.handler = "app"
    /\ \E player \in PlayerResponses :
         LET r == get_video_details(req.video_id, player)
         IN /\ calls' = Append(calls, Call("player", ~player.exc))
            /\ player_data' = IF player.exc THEN None ELSE <<player>>
            /\ IF r.raised
               THEN /\ response' = <<InternalError(r.exc)>>
                    /\ pc' = "done"
                    /\ UNCHANGED <<metadata, catalog>>
               ELSE /\ metadata' = <<MetadataOf(r.ret[1])>>
                    /\ catalog' = r.ret[1].captions_data
                    /\ IF r.ret[1].captions_data = <<>>
                       THEN /\ response' = <<API_NotFound(NoCaptionsMessage)>>
                            /\ pc' = "done"
                       ELSE /\ pc' = "api_select"
                            /\ UNCHANGED response
    /\ UNCHANGED <<transcript, payload, parsed_captions, attempts>>
    /\ API_RestUnchanged

\* YouTubeService.get_available_languages
RECURSIVE get_available_languages(_)
get_available_languages(captions_data) ==
    IF captions_data = <<>> THEN <<>>
    ELSE <<LanguageEntry(Head(captions_data).languageCode, Head(captions_data).name)>>
         \o get_available_languages(Tail(captions_data))

\* get_caption_track falling back to the first track instead of None
get_caption_track_or_first(captions_data, language) ==
    IF \E i \in 1..Len(captions_data) : captions_data[i].languageCode = language
    THEN <<captions_data[CHOOSE i \in 1..Len(captions_data) :
                             /\ captions_data[i].languageCode = language
                             /\ \A j \in 1..(i - 1) : captions_data[j].languageCode # language]>>
    ELSE IF captions_data # <<>> THEN <<captions_data[1]>>
    ELSE None

\* YouTubeService.get_caption_track: next(c for c in captions_data if ...), else None
get_caption_track(captions_data, language) ==
    IF \E i \in 1..Len(captions_data) : captions_data[i].languageCode = language
    THEN LET first == CHOOSE i \in 1..Len(captions_data) :
                          /\ captions_data[i].languageCode = language
                          /\ \A j \in 1..(i - 1) : captions_data[j].languageCode # language
         IN <<captions_data[first]>>
    ELSE None

\* if not language: return {... "available_languages": available_languages}
API_list_available ==
    /\ pc = "api_select"
    /\ req.language \in {None, <<"">>}
    /\ response' = <<[NoResponse EXCEPT
                        !.status_code = 200,
                        !.metadata = metadata,
                        !.available_languages = <<get_available_languages(catalog)>>]>>
    /\ pc' = "done"
    /\ UNCHANGED <<metadata, calls, catalog, transcript, payload, parsed_captions,
                   player_data, attempts>>
    /\ API_RestUnchanged

\* selected_caption = youtube_service.get_caption_track(captions_data, language)
\* if not selected_caption: raise HTTPException(404)
API_get_caption_track ==
    /\ pc = "api_select"
    /\ req.language \notin {None, <<"">>}
    /\ LET selected_caption == get_caption_track(catalog, req.language[1])
       IN IF selected_caption = None
          THEN /\ response' = <<API_NotFound(LanguageMessage(req.language[1]))>>
               /\ pc' = "done"
               /\ UNCHANGED transcript
          ELSE /\ transcript' = selected_caption
               /\ pc' = "api_fetch"
               /\ UNCHANGED response
    /\ UNCHANGED <<metadata, calls, catalog, payload, parsed_captions, player_data, attempts>>
    /\ API_RestUnchanged

\* answers of the caption endpoint tried in a whole request
RequestPayloads ==
    { FetchRaises, NotXml(200), NotXml(503), Xml(<<>>),
      Xml(<<[tag |-> "text", start |-> None, dur |-> <<"2.0">>, text |-> <<<<"Hello">>>>],
            [tag |-> "text", start |-> <<"1.2">>, dur |-> None, text |-> <<<<"world">>>>]>>),
      Xml(<<[tag |-> "text", start |-> <<"abc">>, dur |-> <<"2.0">>, text |-> <<<<"Hello">>>>]>>),
      Xml(<<[tag |-> "text", start |-> <<"1.2">>, dur |-> <<"2.0">>, text |-> None],
            [tag |-> "text", start |-> <<"1.2">>, dur |-> <<"2.0">>,
             text |-> <<<<"it", EscapedApostrophe, "s">>>>]>>),
      Xml(<<[tag |-> "text", start |-> <<"1.2">>, dur |-> <<"2.0">>,
             text |-> <<<<"two", Newline, "lines">>>>]>>) }

\* the response dict built after fetch_and_parse_captions returned
API_captions_response(md, language, timestamps, captions) ==
    [NoResponse EXCEPT
        !.status_code = 200,
        !.metadata = md,
        !.languageCode = language,
        !.timestamped_captions = IF timestamps THEN <<captions>> ELSE None,
        !.captions = IF timestamps THEN None ELSE <<captions>>]

\* the fetch step of get_captions with `if summarize:` in place of
\* `if summarize and not timestamps:`
API_fetch_and_parse_captions_if_summarize ==
    /\ pc = "api_fetch"
    /\ \E p \in RequestPayloads :
         LET r == fetch_and_parse_captions(p, req.timestamps)
         IN /\ payload' = <<p>>
            /\ parsed_captions' = <<r>>
            /\ calls' = Append(calls, Call("fetch", ~p.exc))
            /\ IF r.raised
               THEN /\ response' = <<InternalError(r.exc)>>
                    /\ pc' = "done"
               ELSE IF req.summarize
               THEN /\ pc' = "api_summarize"
                    /\ UNCHANGED response
               ELSE /\ response' = <<API_captions_response(metadata, req.language,
                                                            req.timestamps, r.ret)>>
                    /\ pc' = "done"
    /\ UNCHANGED <<metadata, catalog, transcript, player_data, attempts>>
    /\ API_RestUnchanged

\* parsed_captions = youtube_service.fetch_and_parse_captions(baseUrl, timestamps)
\* response = {...}; if summarize and not timestamps: (next step); return response
API_fetch_and_parse_captions ==
    /\ pc = "api_fetch"
    /\ \E p \in RequestPayloads :
         LET r == fetch_and_parse_captions(p, req.timestamps)
         IN /\ payload' = <<p>>
            /\ parsed_captions' = <<r>>
            /\ calls' = Append(calls, Call("fetch", ~p.exc))
            /\ IF r.raised
               THEN /\ response' = <<InternalError(r.exc)>>
                    /\ pc' = "done"
               ELSE IF req.summarize /\ ~req.timestamps
               THEN /\ pc' = "api_summarize"
                    /\ UNCHANGED response
               ELSE /\ response' = <<API_captions_response(metadata, req.language,
                                                            req.timestamps, r.ret)>>
                    /\ pc' = "done"
    /\ UNCHANGED <<metadata, catalog, transcript, player_data, attempts>>
    /\ API_RestUnchanged

\* response = requests.get(base_url) is called without a timeout: when the
\* caption endpoint never answers, the call never returns
fetch_and_parse_captions_blocked ==
    /\ pc = "api_fetch"
    /\ calls' = Append(calls, Call("fetch", FALSE))
    /\ pc' = "blocked"
    /\ UNCHANGED <<metadata, catalog, transcript, payload, parsed_captions, response,
                   player_data, attempts>>
    /\ API_RestUnchanged

\* summary, token_usage = openai_service.summarize_text(parsed_captions, ...)
\* response["summary"] = summary; response["token_usage"] = token_usage
\* (one attempt of the decorated summarize_text per step)
API_summarize ==
    /\ pc = "api_summarize"
    /\ \E outcome \in OpenAIOutcomes :
         LET attempt_number == AttemptNumber("summarize_text")
             then == retry(attempt_number, outcome)
         IN /\ attempts' = Append(attempts, Attempt("summarize_text", outcome))
            /\ calls' = Append(calls, Call("summarize", outcome = "ok"))
            /\ IF then = "return"
               THEN /\ response' =
                         <<[API_captions_response(metadata, req.language, req.timestamps,
                                                  parsed_captions[1].ret)
                              EXCEPT !.summary = <<"summary">>,
                                     !.token_usage = <<"token_usage">>]>>
                    /\ pc' = "done"
               ELSE IF then = "retry"
               THEN /\ pc' = "api_summarize"
                    /\ UNCHANGED response
               ELSE /\ response' = <<InternalError(RetryException(attempt_number, outcome))>>
                    /\ pc' = "done"
    /\ UNCHANGED <<metadata, catalog, transcript, payload, parsed_captions, player_data>>
    /\ API_RestUnchanged

----------------------------------------------------------------------------
(***************************************************************************)
(* One caption request, served by either handler                           *)
(***************************************************************************)

\* the query parameters the two handlers accept, for the given video ids
RequestsOf(video_ids) ==
    [handler : {"TranscriptFetch"}, video_id : video_ids,
     language : RequestedLanguages, timestamps : BOOLEAN, summarize : {FALSE}]
    \cup [handler : {"app"}, video_id : video_ids,
          language : RequestedLanguages, timestamps : BOOLEAN, summarize : BOOLEAN]

Requests == RequestsOf({"dQw4w9WgXcQ"})

InitWith(requests) ==
    /\ pc = "start"
    /\ req \in requests
    /\ YOUTUBE_API_KEY \in BOOLEAN
    /\ result = DefaultMetadata("")
    /\ metadata = None
    /\ calls = <<>>
    /\ catalog = <<>>
    /\ transcript = None
    /\ language_name = <<>>
    /\ payload = None
    /\ parsed_captions = None
    /\ response = None
    /\ player_data = None
    /\ attempts = <<>>
    /\ transcribed_text = None
    /\ NoOthers

Init == InitWith(Requests)

Next ==
    \/ TF_get_captions_begin
    \/ get_video_metadata_begin
    \/ get_video_metadata_try_api
    \/ get_video_metadata_try_pytube
    \/ get_video_metadata_try_oembed
    \/ get_video_metadata_try_page
    \/ TF_list_transcripts
    \/ TF_list_available
    \/ TF_find_transcript
    \/ TF_translate
    \/ TF_fetch
    \/ API_get_video_details
    \/ API_list_available
    \/ API_get_caption_track
    \/ API_fetch_and_parse_captions
    \/ API_summarize
    \/ get_video_metadata_blocked
    \/ fetch_and_parse_captions_blocked

Spec == Init /\ [][Next]_vars

\* video_id: str accepts any string: the empty one, and one that is no
\* YouTube video id (11 characters of A-Z, a-z, 0-9, - and _)
InvalidVideoIds == {"", "not a video id!"}

\* requests carrying such a video id
InitInvalidId == InitWith(RequestsOf(InvalidVideoIds))

SpecInvalidId == InitInvalidId /\ [][Next]_vars


----------------------------------------------------------------------------
(***************************************************************************)
(* The parser and the formatters on their own: fetch_and_parse_captions    *)
(* applied to one answer of the caption endpoint, and the rendering of     *)
(* TranscriptFetch applied to one list of segments                         *)
(***************************************************************************)

\* the texts a segment handed back by transcript.fetch() may carry
SegmentTexts ==
    {<<>>, <<"Hello">>, <<"world">>, <<"it", EscapedApostrophe, "s">>, <<"two", Newline, "lines">>}

\* lists of segments handed back by transcript.fetch()
TranscriptData ==
    UNION {[1..n -> [start : {12}, duration : {20}, text : SegmentTexts]] : n \in 0..MaxElems}

InitParse ==
    /\ pc = "parse_start"
    /\ req \in [handler : {"app", "TranscriptFetch"}, video_id : {"dQw4w9WgXcQ"},
                language : {<<"en">>}, timestamps : BOOLEAN, summarize : {FALSE}]
    /\ payload \in IF req.handler = "app" THEN {<<p>> : p \in Payloads} ELSE {None}
    /\ YOUTUBE_API_KEY = FALSE
    /\ result = DefaultMetadata("")
    /\ metadata = None
    /\ calls = <<>>
    /\ catalog = <<>>
    /\ transcript = None
    /\ language_name = <<>>
    /\ parsed_captions = None
    /\ response = None
    /\ player_data = None
    /\ attempts = <<>>
    /\ transcribed_text = None
    /\ NoOthers

\* one call of YouTubeService.fetch_and_parse_captions
fetch_and_parse_captions_call ==
    /\ pc = "parse_start"
    /\ req.handler = "app"
    /\ parsed_captions' = <<fetch_and_parse_captions(payload[1], req.timestamps)>>
    /\ calls' = Append(calls, Call("fetch", ~payload[1].exc))
    /\ pc' = "parsed"
    /\ UNCHANGED <<req, YOUTUBE_API_KEY, result, metadata, catalog, transcript,
                   language_name, payload, response, player_data, attempts, transcribed_text,
                   others>>

\* the end of TranscriptFetch.get_captions, from transcript_data on
TF_format_call ==
    /\ pc = "parse_start"
    /\ req.handler = "TranscriptFetch"
    /\ \E transcript_data \in TranscriptData :
         /\ parsed_captions' = <<Ret(transcript_data)>>
         /\ response' = <<TF_captions_response(<<DefaultMetadata(req.video_id)>>, req.language,
                                                <<"English">>, req.timestamps, transcript_data)>>
    /\ calls' = Append(calls, Call("fetch", TRUE))
    /\ pc' = "formatted"
    /\ UNCHANGED <<req, YOUTUBE_API_KEY, result, metadata, catalog, transcript,
                   language_name, payload, player_data, attempts, transcribed_text,
                   others>>

NextParse ==
    \/ fetch_and_parse_captions_call
    \/ TF_format_call

SpecParse == InitParse /\ [][NextParse]_vars

----------------------------------------------------------------------------
(***************************************************************************)
(* POST /summarize/ (app/api/summarization.py) and POST /transcribe/file   *)
(* (app/api/transcription.py), the callers of OpenAIService                *)
(***************************************************************************)

\* file_path of a transcription request: the part before the extension and
\* the extension as the client wrote it
FilePaths ==
    {<<"uploads/talk", ".pdf">>, <<"uploads/talk", ".MP3">>,
     <<"uploads/talk", ".mp4">>, <<"uploads/talk", ".txt">>}

\* str.lower() of an extension
lower(ext) == CASE ext = ".MP3" -> ".mp3" [] OTHER -> ext

AudioExtensions == {".mp3", ".wav", ".m4a", ".flac"}

VideoExtensions == {".mp4", ".avi", ".mov", ".mkv"}

\* os.path.basename(file_path)
basename(file_path) == <<"talk", file_path[2]>>

\* the texts a PDF or a recording may yield
Texts_transcribed == {<<>>, <<"transcribed text">>}

\* raise HTTPException(500, detail=f"{prefix}{str(e)}")
Failed(prefix, exc) ==
    [NoResponse EXCEPT !.status_code = 500, !.error = <<<<prefix, "str(e)", exc>>>>]

\* raise HTTPException(status_code, detail)
HttpError(status_code, detail) ==
    [NoResponse EXCEPT !.status_code = status_code, !.error = <<<<detail>>>>]

\* TranscriptionResponse(filename, text, duration, token_usage[, summary])
TranscriptionResponse(file_path, text, summary) ==
    [NoResponse EXCEPT !.status_code = 200, !.filename = <<basename(file_path)>>,
                       !.text = <<text>>, !.summary = summary,
                       !.token_usage = IF summary = None THEN None ELSE <<"token_usage">>]

OpenAI_RestUnchanged ==
    UNCHANGED <<req, YOUTUBE_API_KEY, result, metadata, catalog, transcript, language_name,
                payload, parsed_captions, player_data, others>>

\* summarize_text of summarization.py (one attempt of the decorated
\* summarize_text per step)
SUM_summarize_text ==
    /\ pc = "start"
    /\ req.handler = "summarize"
    /\ \E outcome \in OpenAIOutcomes :
         LET attempt_number == AttemptNumber("summarize_text")
             then == retry(attempt_number, outcome)
         IN /\ attempts' = Append(attempts, Attempt("summarize_text", outcome))
            /\ calls' = Append(calls, Call("summarize", outcome = "ok"))
            /\ IF then = "return"
               THEN /\ response' = <<[NoResponse EXCEPT !.status_code = 200,
                                                        !.summary = <<"summary">>,
                                                        !.token_usage = <<"token_usage">>]>>
                    /\ pc' = "done"
               ELSE IF then = "retry"
               THEN /\ pc' = "start"
                    /\ UNCHANGED response
               ELSE /\ response' = <<Failed("Failed to summarize text: ",
                                            RetryException(attempt_number, outcome))>>
                    /\ pc' = "done"
    /\ UNCHANGED transcribed_text
    /\ OpenAI_RestUnchanged

\* after the text was obtained: if summarize and transcribed_text: ...
\* else: response = TranscriptionResponse(...); return response
TR_text_obtained(text) ==
    /\ transcribed_text' = <<text>>
    /\ IF req.summarize /\ text # <<>>
       THEN /\ pc' = "summarize_text"
            /\ UNCHANGED response
       ELSE /\ response' = <<TranscriptionResponse(req.file_path, text, None)>>
            /\ pc' = "done"

\* transcribe_file up to the call of transcribe_audio: the existence and
\* file type checks, the PDF text extraction, the audio extraction
TR_transcribe_file ==
    /\ pc = "start"
    /\ req.handler = "transcribe_file"
    /\ LET ext == lower(req.file_path[2])
       IN \/ /\ response' = <<HttpError(404, "File not found. Please upload the file first.")>>
             /\ pc' = "done"                              \* not os.path.exists(file_path)
             /\ UNCHANGED transcribed_text
          \/ /\ ext = ".pdf"
             /\ \/ /\ response' = <<Failed("Failed to transcribe file: ", "PdfReadError")>>
                   /\ pc' = "done"
                   /\ UNCHANGED transcribed_text
                \/ \E text \in Texts_transcribed : TR_text_obtained(text)
          \/ /\ ext \in AudioExtensions
             /\ pc' = "transcribe_audio"
             /\ UNCHANGED <<response, transcribed_text>>
          \/ /\ ext \in VideoExtensions
             /\ \/ /\ response' = <<Failed("Failed to transcribe file: ", "CouldntDecodeError")>>
                   /\ pc' = "done"
                \/ /\ pc' = "transcribe_audio"
                   /\ UNCHANGED response
             /\ UNCHANGED transcribed_text
          \/ /\ ext \notin {".pdf"} \cup AudioExtensions \cup VideoExtensions
             /\ response' = <<HttpError(415, "Unsupported file type. Please upload a PDF, audio, or video file.")>>
             /\ pc' = "done"
             /\ UNCHANGED transcribed_text
    /\ UNCHANGED <<calls, attempts>>
    /\ OpenAI_RestUnchanged

\* transcribed_text, token_usage = openai_service.transcribe_audio(...)
\* (one attempt of the decorated transcribe_audio per step)
TR_transcribe_audio ==
    /\ pc = "transcribe_audio"
    /\ \E outcome \in OpenAIOutcomes :
         LET attempt_number == AttemptNumber("transcribe_audio")
             then == retry(attempt_number, outcome)
         IN /\ attempts' = Append(attempts, Attempt("transcribe_audio", outcome))
            /\ calls' = Append(calls, Call("transcribe", outcome = "ok"))
            /\ IF then = "return"
               THEN \E text \in Texts_transcribed : TR_text_obtained(text)
               ELSE IF then = "retry"
               THEN /\ pc' = "transcribe_audio"
                    /\ UNCHANGED <<response, transcribed_text>>
               ELSE /\ response' = <<Failed("Failed to transcribe file: ",
                                            RetryException(attempt_number, outcome))>>
                    /\ pc' = "done"
                    /\ UNCHANGED transcribed_text
    /\ OpenAI_RestUnchanged

\* summary, summary_token_usage = openai_service.summarize_text(transcribed_text)
\* (one attempt of the decorated summarize_text per step)
TR_summarize_text ==
    /\ pc = "summarize_text"
    /\ \E outcome \in OpenAIOutcomes :
         LET attempt_number == AttemptNumber("summarize_text")
             then == retry(attempt_number, outcome)
         IN /\ attempts' = Append(attempts, Attempt("summarize_text", outcome))
            /\ calls' = Append(calls, Call("summarize", outcome = "ok"))
            /\ IF then = "return"
               THEN /\ response' = <<TranscriptionResponse(req.file_path, transcribed_text[1],
                                                           <<"summary">>)>>
                    /\ pc' = "done"
               ELSE IF then = "retry"
               THEN /\ pc' = "summarize_text"
                    /\ UNCHANGED response
               ELSE /\ response' = <<Failed("Failed to transcribe file: ",
                                            RetryException(attempt_number, outcome))>>
                    /\ pc' = "done"
    /\ UNCHANGED transcribed_text
    /\ OpenAI_RestUnchanged

OpenAIRequests ==
    [handler : {"summarize"}, summarize : {TRUE}, file_path : {<<"", "">>}]
    \cup [handler : {"transcribe_file"}, summarize : BOOLEAN, file_path : FilePaths]

InitOpenAI ==
    /\ pc = "start"
    /\ req \in OpenAIRequests
    /\ YOUTUBE_API_KEY = FALSE
    /\ result = DefaultMetadata("")
    /\ metadata = None
    /\ calls = <<>>
    /\ catalog = <<>>
    /\ transcript = None
    /\ language_name = <<>>
    /\ payload = None
    /\ parsed_captions = None
    /\ response = None
    /\ player_data = None
    /\ attempts = <<>>
    /\ transcribed_text = None
    /\ NoOthers

NextOpenAI ==
    \/ SUM_summarize_text
    \/ TR_transcribe_file
    \/ TR_transcribe_audio
    \/ TR_summarize_text

SpecOpenAI == InitOpenAI /\ [][NextOpenAI]_vars


----------------------------------------------------------------------------
(***************************************************************************)
(* The x-api-key check in front of the caption handlers                    *)
(***************************************************************************)

\* os.getenv("API_KEY") / the API_KEY entry of the environment
ServiceKeys == {None, <<"secret">>}

\* request.headers.get("x-api-key"): absent, the service's key, another key
HeaderKeys == {None, <<"secret">>, <<"wrong">>}

\* status 403 with "Unauthorized access. Invalid API key."
Forbidden ==
    [NoResponse EXCEPT !.status_code = 403,
                       !.error = <<<<"Unauthorized access. Invalid API key.">>>>]

AuthRestUnchanged ==
    /\ UNCHANGED <<calls, catalog, transcript, language_name, parsed_captions>>
    /\ TF_RestUnchanged

\* Process start.  TranscriptFetch.py: API_KEY = os.getenv("API_KEY"), None
\* when unset.  The application: settings = Settings(), whose field
\* API_KEY: str has no default, so that the import raises when it is unset
\* and the service does not start.
Settings ==
    /\ pc = "startup"
    /\ pc' = IF req.handler = "app" /\ API_KEY = None THEN "not_started" ELSE "received"
    /\ UNCHANGED response
    /\ AuthRestUnchanged

\* provided_key = request.headers.get("x-api-key")
\* if provided_key != API_KEY: return JSONResponse(..., status_code=403)
\* return await call_next(request)
api_key_middleware ==
    /\ pc = "received"
    /\ req.handler = "TranscriptFetch"
    /\ LET provided_key == req.x_api_key
       IN IF provided_key # API_KEY
          THEN /\ response' = <<Forbidden>>
               /\ pc' = "done"
          ELSE /\ pc' = "start"
               /\ UNCHANGED response
    /\ AuthRestUnchanged

\* if api_key != settings.API_KEY: raise HTTPException(status_code=403, ...)
\* return api_key
verify_api_key ==
    /\ pc = "received"
    /\ req.handler = "app"
    /\ LET api_key == req.x_api_key
       IN IF api_key # API_KEY
          THEN /\ response' = <<Forbidden>>
               /\ pc' = "done"
          ELSE /\ pc' = "start"
               /\ UNCHANGED response
    /\ AuthRestUnchanged

\* the caption requests with their x-api-key header
AuthRequests ==
    [handler : {"TranscriptFetch"}, video_id : {"dQw4w9WgXcQ"},
     language : RequestedLanguages, timestamps : BOOLEAN, summarize : {FALSE},
     x_api_key : HeaderKeys]
    \cup [handler : {"app"}, video_id : {"dQw4w9WgXcQ"},
          language : RequestedLanguages, timestamps : BOOLEAN, summarize : BOOLEAN,
          x_api_key : HeaderKeys]

InitAuth ==
    /\ pc = "startup"
    /\ req \in AuthRequests
    /\ API_KEY \in ServiceKeys
    /\ YOUTUBE_API_KEY \in BOOLEAN
    /\ result = DefaultMetadata("")
    /\ metadata = None
    /\ calls = <<>>
    /\ catalog = <<>>
    /\ transcript = None
    /\ language_name = <<>>
    /\ payload = None
    /\ parsed_captions = None
    /\ response = None
    /\ player_data = None
    /\ attempts = <<>>
    /\ transcribed_text = None
    /\ upload_dir = <<>>
    /\ uploaded = <<>>
    /\ frames = <<>>
    /\ results = <<>>

NextAuth ==
    \/ Settings
    \/ api_key_middleware
    \/ verify_api_key
    \/ Next

SpecAuth == InitAuth /\ [][NextAuth]_vars

----------------------------------------------------------------------------
(***************************************************************************)
(* POST /transcribe/upload (app/api/transcription.py, FileService)         *)
(***************************************************************************)

\* uploads served by the process
MaxUploads == 2

\* file.filename as the client sent it
ClientFilenames == {"talk.mp3", "notes.pdf"}

\* settings.MAX_UPLOAD_SIZE and the sizes of the uploaded bodies, in units
\* of 25 MB
MAX_UPLOAD_SIZE == 2

FileSizes == {1, 2, 3}

\* settings.UPLOAD_DIR
UPLOAD_DIR == "uploads"

\* os.path.join(self.upload_dir, filename)
os_path_join(dir, filename) == <<dir, "/", filename>>

\* mimetypes.guess_type(file_path), then FileService._determine_file_type
determine_file_type(filename) ==
    IF filename = "talk.mp3" THEN "audio" ELSE "pdf"

\* the body of upload i: whose bytes they are, and how many
Body(i, size) == [owner |-> i, size |-> size]

EmptyFile(i) == [owner |-> i, size |-> 0]

\* dict assignment upload_dir[path] = file
WriteFile(dir, path, file) ==
    [q \in (DOMAIN dir) \cup {path} |-> IF q = path THEN file ELSE dir[q]]

UploadFileResponse(filename, saved_path, file_type, size) ==
    [status_code |-> 200, filename |-> filename, saved_path |-> saved_path,
     file_type |-> file_type, size |-> size]

UploadError(status_code) ==
    [status_code |-> status_code, filename |-> "", saved_path |-> <<>>,
     file_type |-> "", size |-> 0]

UploadRestUnchanged ==
    UNCHANGED <<pc, req, YOUTUBE_API_KEY, result, metadata, calls, catalog, transcript,
                language_name, payload, parsed_captions, response, player_data, attempts,
                transcribed_text, API_KEY, frames, results>>

\* upload_file up to the call of save_upload_file:
\* if file_size > settings.MAX_UPLOAD_SIZE: raise HTTPException(413)
upload_file(i) ==
    /\ uploaded[i].pc = "received"
    /\ uploaded' = [uploaded EXCEPT ![i] =
           IF @.size > MAX_UPLOAD_SIZE
           THEN [@ EXCEPT !.pc = "done", !.response = UploadError(413)]
           ELSE [@ EXCEPT !.pc = "save_upload_file"]]
    /\ UNCHANGED upload_dir
    /\ UploadRestUnchanged

\* filename = file.filename; file_path = os.path.join(self.upload_dir, filename)
\* with open(file_path, "wb") as buffer:      (creates or truncates the file;
\* an OSError is answered 500 by upload_file)
save_upload_file_open(i) ==
    /\ uploaded[i].pc = "save_upload_file"
    /\ LET filename == uploaded[i].filename
           file_path == os_path_join(UPLOAD_DIR, filename)
       IN \/ /\ upload_dir' = WriteFile(upload_dir, file_path, EmptyFile(i))
             /\ uploaded' = [uploaded EXCEPT ![i].pc = "copyfileobj"]
          \/ /\ uploaded' = [uploaded EXCEPT ![i].pc = "done",
                                              ![i].response = UploadError(500)]
             /\ UNCHANGED upload_dir
    /\ UploadRestUnchanged

\*     shutil.copyfileobj(file.file, buffer)
\* file_type = ...; file_size = os.path.getsize(file_path); return {...}
\* and upload_file's return UploadFileResponse(...)
save_upload_file_copy(i) ==
    /\ uploaded[i].pc = "copyfileobj"
    /\ LET filename == uploaded[i].filename
           file_path == os_path_join(UPLOAD_DIR, filename)
           written == WriteFile(upload_dir, file_path, Body(i, uploaded[i].size))
       IN /\ upload_dir' = written
          /\ uploaded' = [uploaded EXCEPT
                ![i].pc = "done",
                ![i].response = UploadFileResponse(filename, file_path,
                                                   determine_file_type(filename),
                                                   written[file_path].size)]
    /\ UploadRestUnchanged

\* the upload requests the process receives, each with its own body
UploadRequests ==
    [1..MaxUploads ->
        [pc : {"received"}, filename : ClientFilenames, size : FileSizes,
         response : {UploadError(0)}]]

InitUpload ==
    /\ pc = "serving"
    /\ req = None
    /\ API_KEY = <<"secret">>
    /\ uploaded \in UploadRequests
    /\ upload_dir = <<>>
    /\ YOUTUBE_API_KEY = FALSE
    /\ result = DefaultMetadata("")
    /\ metadata = None
    /\ calls = <<>>
    /\ catalog = <<>>
    /\ transcript = None
    /\ language_name = <<>>
    /\ payload = None
    /\ parsed_captions = None
    /\ response = None
    /\ player_data = None
    /\ attempts = <<>>
    /\ transcribed_text = None
    /\ frames = <<>>
    /\ results = <<>>

NextUpload ==
    \E i \in 1..MaxUploads :
        \/ upload_file(i)
        \/ save_upload_file_open(i)
        \/ save_upload_file_copy(i)

SpecUpload == InitUpload /\ [][NextUpload]_vars

----------------------------------------------------------------------------
(***************************************************************************)
(* Concurrent caption requests                                             *)
(*                                                                         *)
(* Two requests without a language parameter are served at the same time  *)
(* (worker threads or processes); their steps interleave at the outbound   *)
(* calls.  What the upstream answers to each request is fixed when the    *)
(* request arrives, so that the same request can be replayed alone.        *)
(***************************************************************************)

RequestIds == {1, 2}

VideoIdOf(i) == IF i = 1 THEN "dQw4w9WgXcQ" ELSE "9bZkp7q19f0"

\* `result` as a dict of the module, shared by every call
Scope_module_level(i) == 0

\* `result = {...}` is a local of get_video_metadata: each call has its own
Scope(i) == i

\* the answers the upstream gives to one request
ConcurrentApi ==
    {r \in ApiResponses : r.status_code = 404}
    \cup {r \in ApiResponses :
             /\ r.status_code = 200 /\ r.shape_ok /\ r.items # <<>>
             /\ r.items[1] = [title |-> <<"API title">>, channelTitle |-> <<"API channel">>,
                              channelId |-> <<"UCapi">>, thumbnails |-> {"default"}]}

ConcurrentPytube ==
    {yt \in PytubeOutcomes :
        /\ yt.ctor_ok /\ yt.thumbnail_url = RAISE_URL
        /\ yt.author = "pytube author" /\ yt.channel_id = RAISE}

ConcurrentOEmbed ==
    {r \in OEmbedResponses :
        \/ r.status_code = 404
        \/ r.status_code = 200 /\ r.title # None /\ r.author_name # None /\ r.author_url # <<>>}

ConcurrentPage ==
    {r \in PageResponses :
        r.status_code = 429 \/ (r.status_code = 200 /\ r.title_match = <<"Page title">>)}

ConcurrentCatalogs ==
    {c \in Catalogs :
        c = <<>> \/ (Len(c) = 1 /\ c[1].kind = "manual" /\ c[1].languageCode = "en")}

ConcurrentPlayer ==
    {p \in PlayerResponses :
        \/ p.exc
        \/ /\ p.videoDetails.author # None /\ p.videoDetails.channel_thumbnails # <<>>
           /\ p.captionTracks \in ConcurrentCatalogs}

NoAnswer == [exc |-> TRUE]

\* the requests, each with the answers it will get
ConcurrentRequests(i) ==
    [handler : {"TranscriptFetch"}, video_id : {VideoIdOf(i)},
     api : ConcurrentApi, yt : ConcurrentPytube, oembed : ConcurrentOEmbed,
     page : ConcurrentPage,
     catalog : {Raise("CouldNotRetrieveTranscript")} \cup {Ret(c) : c \in ConcurrentCatalogs},
     player : {NoAnswer}]
    \cup [handler : {"app"}, video_id : {VideoIdOf(i)},
          api : {NoAnswer}, yt : {NoAnswer}, oembed : {NoAnswer}, page : {NoAnswer},
          catalog : {Raised}, player : ConcurrentPlayer]

\* get_video_metadata run from its first to its last line on the answers up
get_video_metadata(video_id, key, up) ==
    LET api_data == get_video_metadata_api(video_id, key, up.api).ret
        filled == pytube_fill(DefaultMetadata(video_id), up.yt)
        oembed_data == get_video_metadata_oembed(video_id, up.oembed).ret
        title == Get(get_video_title_from_page(up.page).ret, "Unknown Title")
    IN IF key /\ api_data # None THEN api_data[1]
       ELSE IF up.yt.ctor_ok /\ filled.video_title # "Unknown Title" THEN filled
       ELSE IF oembed_data # None THEN oembed_data[1]
       ELSE IF filled.video_title = "Unknown Title" /\ title # "Unknown Title"
       THEN [filled EXCEPT !.video_title = title]
       ELSE filled

\* TranscriptFetch.get_captions without a language, after the metadata
TF_listing(md, listed) ==
    IF listed.raised THEN InternalError(listed.exc)
    ELSE IF listed.ret = <<>> THEN TF_NotFound(NoCaptionsMessage, md)
    ELSE [NoResponse EXCEPT
             !.status_code = 200,
             !.metadata = <<md>>,
             !.available_languages = <<TF_available_languages(TranscriptList(listed.ret))>>]

\* the application's get_captions without a language
API_listing(video_id, player) ==
    LET r == get_video_details(video_id, player)
    IN IF r.raised THEN InternalError(r.exc)
       ELSE IF r.ret[1].captions_data = <<>> THEN API_NotFound(NoCaptionsMessage)
       ELSE [NoResponse EXCEPT
                !.status_code = 200,
                !.metadata = <<MetadataOf(r.ret[1])>>,
                !.available_languages = <<get_available_languages(r.ret[1].captions_data)>>]

\* the response of the request when it is served alone
Alone(r, key) ==
    IF r.handler = "TranscriptFetch"
    THEN TF_listing(get_video_metadata(r.video_id, key, r), r.catalog)
    ELSE API_listing(r.video_id, r.player)

ConcurrentRestUnchanged ==
    UNCHANGED <<pc, req, YOUTUBE_API_KEY, result, metadata, calls, catalog, transcript,
                language_name, payload, parsed_captions, response, player_data, attempts,
                transcribed_text, API_KEY, upload_dir, uploaded>>

\* the locals of the handler serving request r, before its first statement
Frame(r) == [pc |-> "start", req |-> r, metadata |-> None, response |-> None]

\* metadata = get_video_metadata(video_id) is entered: result = {...}
get_video_metadata_begin_of(i) ==
    /\ frames[i].pc = "start"
    /\ frames[i].req.handler = "TranscriptFetch"
    /\ results' = [results EXCEPT ![Scope(i)] = DefaultMetadata(frames[i].req.video_id)]
    /\ frames' = [frames EXCEPT ![i].pc = "meta_api"]
    /\ ConcurrentRestUnchanged

\* if YOUTUBE_API_KEY: api_data = ...; if api_data: return api_data
get_video_metadata_try_api_of(i) ==
    /\ frames[i].pc = "meta_api"
    /\ LET r == frames[i].req
           api_data == get_video_metadata_api(r.video_id, YOUTUBE_API_KEY, r.api).ret
       IN frames' = [frames EXCEPT ![i] =
              IF YOUTUBE_API_KEY /\ api_data # None
              THEN [@ EXCEPT !.metadata = <<api_data[1]>>, !.pc = "list_transcripts"]
              ELSE [@ EXCEPT !.pc = "meta_pytube"]]
    /\ UNCHANGED results
    /\ ConcurrentRestUnchanged

\* the pytube block: the property reads into result, and the return on a title
get_video_metadata_try_pytube_of(i) ==
    /\ frames[i].pc = "meta_pytube"
    /\ LET yt == frames[i].req.yt
           filled == pytube_fill(results[Scope(i)], yt)
       IN /\ results' = [results EXCEPT ![Scope(i)] = filled]
          /\ frames' = [frames EXCEPT ![i] =
                IF yt.ctor_ok /\ filled.video_title # "Unknown Title"
                THEN [@ EXCEPT !.metadata = <<filled>>, !.pc = "list_transcripts"]
                ELSE [@ EXCEPT !.pc = "meta_oembed"]]
    /\ ConcurrentRestUnchanged

\* oembed_data = get_video_metadata_oembed(video_id); if oembed_data: return oembed_data
get_video_metadata_try_oembed_of(i) ==
    /\ frames[i].pc = "meta_oembed"
    /\ LET r == frames[i].req
           oembed_data == get_video_metadata_oembed(r.video_id, r.oembed).ret
       IN frames' = [frames EXCEPT ![i] =
              IF oembed_data # None
              THEN [@ EXCEPT !.metadata = <<oembed_data[1]>>, !.pc = "list_transcripts"]
              ELSE [@ EXCEPT !.pc = "meta_page"]]
    /\ UNCHANGED results
    /\ ConcurrentRestUnchanged

\* the page scan when result still has no title, and `return result`
get_video_metadata_try_page_of(i) ==
    /\ frames[i].pc = "meta_page"
    /\ LET res == results[Scope(i)]
           title == Get(get_video_title_from_page(frames[i].req.page).ret, "Unknown Title")
           returned == IF res.video_title = "Unknown Title" /\ title # "Unknown Title"
                       THEN [res EXCEPT !.video_title = title]
                       ELSE res
       IN /\ results' = [results EXCEPT ![Scope(i)] = returned]
          /\ frames' = [frames EXCEPT ![i].metadata = <<returned>>,
                                      ![i].pc = "list_transcripts"]
    /\ ConcurrentRestUnchanged

\* transcript_list = ytt_api.list_transcripts(...) and the return of the
\* available languages
TF_list_transcripts_of(i) ==
    /\ frames[i].pc = "list_transcripts"
    /\ frames' = [frames EXCEPT
           ![i].response = <<TF_listing(frames[i].metadata[1], frames[i].req.catalog)>>,
           ![i].pc = "done"]
    /\ UNCHANGED results
    /\ ConcurrentRestUnchanged

\* the application's get_captions: youtube_service.get_video_details(video_id)
\* on the service object of the module, then the return of the languages
API_get_captions_of(i) ==
    /\ frames[i].pc = "start"
    /\ frames[i].req.handler = "app"
    /\ frames' = [frames EXCEPT
           ![i].response = <<API_listing(frames[i].req.video_id, frames[i].req.player)>>,
           ![i].pc = "done"]
    /\ UNCHANGED results
    /\ ConcurrentRestUnchanged

InitConcurrent ==
    /\ pc = "serving"
    /\ req = None
    /\ API_KEY = <<"secret">>
    /\ YOUTUBE_API_KEY \in BOOLEAN
    /\ \E r1 \in ConcurrentRequests(1), r2 \in ConcurrentRequests(2) :
         frames = [i \in RequestIds |-> Frame(IF i = 1 THEN r1 ELSE r2)]
    /\ results = [scope \in RequestIds \cup {0} |-> DefaultMetadata("")]
    /\ result = DefaultMetadata("")
    /\ metadata = None
    /\ calls = <<>>
    /\ catalog = <<>>
    /\ transcript = None
    /\ language_name = <<>>
    /\ payload = None
    /\ parsed_captions = None
    /\ response = None
    /\ player_data = None
    /\ attempts = <<>>
    /\ transcribed_text = None
    /\ upload_dir = <<>>
    /\ uploaded = <<>>

NextConcurrent ==
    \E i \in RequestIds :
        \/ get_video_metadata_begin_of(i)
        \/ get_video_metadata_try_api_of(i)
        \/ get_video_metadata_try_pytube_of(i)
        \/ get_video_metadata_try_oembed_of(i)
        \/ get_video_metadata_try_page_of(i)
        \/ TF_list_transcripts_of(i)
        \/ API_get_captions_of(i)

SpecConcurrent == InitConcurrent /\ [][NextConcurrent]_vars

----------------------------------------------------------------------------
(***************************************************************************)
(* Properties of the metadata resolver (SpecMeta)                          *)
(***************************************************************************)

MetadataProviders == <<"api", "pytube", "oembed", "page">>

Rank(name) == CHOOSE r \in 1..Len(MetadataProviders) : MetadataProviders[r] = name

IsMetadataCall(c) == \E r \in 1..Len(MetadataProviders) : MetadataProviders[r] = c.name

\* the metadata provider calls of the request, in the order they were issued
MetaCalls == SelectSeq(calls, IsMetadataCall)

MetaReturned == pc = "meta_done"

\* C1: get_video_metadata never fails.  Whatever the providers answer, no
\* exception leaves it, every step before the return can be taken, and what
\* it returns is a record with exactly the four fields video_title,
\* thumbnail, channel_name and channel_logo, each holding a value.
C1_ResolveMetadataNeverFails ==
    /\ pc # "meta_raised"
    /\ pc \in {"meta_start", "meta_api", "meta_pytube", "meta_oembed", "meta_page"}
         => ENABLED NextMeta
    /\ MetaReturned =>
         /\ metadata # None
         /\ DOMAIN metadata[1] = MetadataKeys
         /\ metadata[1].video_title # RAISE
         /\ metadata[1].channel_name # RAISE
         /\ metadata[1].thumbnail \notin {RAISE_URL, <<>>}
         /\ metadata[1].channel_logo \notin {RAISE_URL, <<>>}

\* C1 witness: the resolver returned although providers before the
\* successful one had failed.
C1_Witness ==
    /\ MetaReturned
    /\ Len(MetaCalls) = 3
    /\ ~MetaCalls[1].ok /\ ~MetaCalls[2].ok /\ MetaCalls[3].ok

\* C2 (as claimed): when every provider that was tried failed, the returned
\* metadata is exactly the default record of that video id.
C2_AllFailedGivesDefaults ==
    (MetaReturned /\ \A i \in 1..Len(MetaCalls) : ~MetaCalls[i].ok)
        => metadata = <<DefaultMetadata(req.video_id)>>

\* C3: the providers are called in the order api, pytube, oembed, page; a
\* call is issued only after every provider of higher priority was called
\* and failed, or was skipped (the api provider without a credential); and
\* no call follows a successful one.
C3_FixedPriorityOrder ==
    \A i \in 1..Len(MetaCalls) :
        /\ \A j \in 1..(i - 1) :
              /\ ~MetaCalls[j].ok
              /\ Rank(MetaCalls[j].name) < Rank(MetaCalls[i].name)
        /\ \A r \in 1..(Rank(MetaCalls[i].name) - 1) :
              \/ \E j \in 1..(i - 1) : MetaCalls[j].name = MetadataProviders[r]
              \/ MetadataProviders[r] = "api" /\ ~YOUTUBE_API_KEY

\* C3 witness: with a credential, all four providers were called in turn
\* and the last one succeeded.
C3_Witness ==
    /\ MetaReturned
    /\ YOUTUBE_API_KEY
    /\ Len(MetaCalls) = 4
    /\ MetaCalls[4].name = "page" /\ MetaCalls[4].ok

----------------------------------------------------------------------------
(***************************************************************************)
(* Properties of a caption request (Spec) and of the parser (SpecParse)    *)
(***************************************************************************)

Done == pc = "done"

LanguageRequested == req.language \notin {None, <<"">>}

HasCode(code) == \E i \in 1..Len(catalog) : catalog[i].languageCode = code

\* position of the first track of that language in the catalog
FirstIndex(code) ==
    CHOOSE i \in 1..Len(catalog) :
        /\ catalog[i].languageCode = code
        /\ \A j \in 1..(i - 1) : catalog[j].languageCode # code

HasCall(name) == \E i \in 1..Len(calls) : calls[i].name = name

HasSuffix(name) == name # <<>> /\ name[Len(name)] = AutoSuffix

\* the exceptions a metadata lookup can end with
MetadataExceptions == {"MetadataError", "KeyError"}

\* C4 (as claimed): a failing metadata lookup never becomes an error
\* response: no request ends with the 500 that reports an exception raised
\* while the video's metadata was being read.
C4_MetadataFailureNotSurfaced ==
    Done => \A e \in MetadataExceptions : response # <<InternalError(e)>>

\* C5 (as claimed): with a non-empty catalog and no requested language the
\* response lists the languages: its codes are exactly the codes of the
\* catalog, in catalog order, and an entry's name ends in " (auto-generated)"
\* exactly when its track is automatic.
C5_ListAvailableMatchesCatalog ==
    (Done /\ ~LanguageRequested /\ catalog # <<>>) =>
        /\ response[1].status_code = 200
        /\ response[1].available_languages # None
        /\ LET langs == response[1].available_languages[1]
           IN /\ {langs[i].languageCode : i \in 1..Len(langs)}
                   = {catalog[k].languageCode : k \in 1..Len(catalog)}
              /\ \A i, j \in 1..Len(langs) :
                    i < j => FirstIndex(langs[i].languageCode) <= FirstIndex(langs[j].languageCode)
              /\ \A i \in 1..Len(langs) : \E k \in 1..Len(catalog) :
                    /\ catalog[k].languageCode = langs[i].languageCode
                    /\ HasSuffix(langs[i].name) <=> IsGenerated(catalog[k])
              /\ \A k \in 1..Len(catalog) : \E i \in 1..Len(langs) :
                    /\ catalog[k].languageCode = langs[i].languageCode
                    /\ HasSuffix(langs[i].name) <=> IsGenerated(catalog[k])

\* C6 (as claimed): when the catalog holds tracks of the requested language,
\* the track selected is the first of them in catalog order, and no
\* translation is attempted.
C6_ExactMatchIsFirstInCatalog ==
    (LanguageRequested /\ catalog # <<>> /\ HasCode(Get(req.language, ""))
       /\ pc \notin {"tf_select", "api_select"}) =>
        /\ transcript = <<catalog[FirstIndex(req.language[1])]>>
        /\ ~HasCall("translate")

CandidatePresent ==
    \E c \in 1..Len(TranslationCandidates) : HasCode(TranslationCandidates[c])

\* the first language of the priority list the catalog carries
FirstCandidate ==
    TranslationCandidates[CHOOSE c \in 1..Len(TranslationCandidates) :
        /\ HasCode(TranslationCandidates[c])
        /\ \A b \in 1..(c - 1) : ~HasCode(TranslationCandidates[b])]

\* C7 (as claimed): when no track has the requested language but a track of
\* the candidate list exists, the request does not end in not-found: the
\* first candidate of the priority list is selected and translated into the
\* requested language.
C7_TranslatedMatch ==
    (Done /\ LanguageRequested /\ catalog # <<>> /\ ~HasCode(Get(req.language, ""))
       /\ CandidatePresent) =>
        /\ response[1].status_code # 404
        /\ transcript # None
        /\ transcript[1].languageCode = req.language[1]
        /\ \E k \in 1..Len(catalog) :
              /\ catalog[k].languageCode = FirstCandidate
              /\ transcript[1].baseUrl = catalog[k].baseUrl \o <<"&tlang=", req.language[1]>>

NoTrackForRequest ==
    /\ LanguageRequested
    /\ catalog # <<>>
    /\ ~HasCode(Get(req.language, ""))
    /\ ~CandidatePresent

NumberOrZero(attr) ==
    IF attr = None THEN 0
    ELSE IF float(attr[1]).raised THEN 0
    ELSE float(attr[1]).ret[1]

RECURSIVE ExpectedSegments(_)
ExpectedSegments(els) ==
    IF els = <<>> THEN <<>>
    ELSE <<[start |-> NumberOrZero(Head(els).start),
            duration |-> NumberOrZero(Head(els).dur),
            text |-> Get(Head(els).text, <<>>)]>> \o ExpectedSegments(Tail(els))

\* C9 (as claimed): for a well-formed payload the parse does not fail; every
\* text element yields a segment, with 0.0 for a start or dur that is absent
\* or no valid number and "" for absent text content.
C9_BadAttributeNeverFailsParse ==
    (pc = "parsed" /\ ~payload[1].exc /\ payload[1].well_formed) =>
        /\ ~parsed_captions[1].raised
        /\ req.timestamps =>
             parsed_captions[1].ret
                 = ExpectedSegments(SelectSeq(payload[1].elements, IsTextElement))

\* C10 (as claimed): a payload that is not well-formed XML ends the request
\* with a dedicated error, not with the generic internal error that an
\* upstream or network failure of the fetch produces.
C10_MalformedPayloadIsDedicated ==
    (Done /\ payload # None /\ ~Get(payload, FetchRaises).exc
       /\ ~Get(payload, FetchRaises).well_formed) =>
        /\ response[1].status_code >= 400
        /\ response[1].status_code # InternalError("ConnectionError").status_code

----------------------------------------------------------------------------
(***************************************************************************)
(* Properties of the formatter                                             *)
(***************************************************************************)

Succeeded == Done /\ response # None /\ response[1].status_code = 200

\* the number an attribute of a parsed element stands for, in tenths
AttributeTenths(attr) == IF attr = None THEN 0 ELSE float(attr[1]).ret[1]

\* the <text> children of the fetched payload, in document order
TextElements == SelectSeq(payload[1].elements, IsTextElement)

\* what the parse step of the request produced: the library's segments in
\* TranscriptFetch, one segment per <text> element in the application
ParsedLength ==
    IF req.handler = "app" THEN Len(TextElements) ELSE Len(parsed_captions[1].ret)

ParsedSegment(i) ==
    IF req.handler = "app"
    THEN [start    |-> AttributeTenths(TextElements[i].start),
          duration |-> AttributeTenths(TextElements[i].dur),
          text     |-> Get(TextElements[i].text, <<>>)]
    ELSE parsed_captions[1].ret[i]

\* C11: a successful request with timestamps answers with the parsed
\* segments unchanged: as many segments as were parsed, in the same order,
\* those without text included with empty text, each with the start, the
\* duration and the raw text it was parsed with (no apostrophe or newline
\* replaced), and no concatenated string.
C11_TimestampedIsParsedUnchanged ==
    (Succeeded /\ LanguageRequested /\ req.timestamps) =>
        /\ response[1].captions = None
        /\ response[1].timestamped_captions # None
        /\ LET out == response[1].timestamped_captions[1]
           IN /\ Len(out) = ParsedLength
              /\ \A i \in 1..Len(out) : out[i] = ParsedSegment(i)

\* C11 witness: a timestamped answer holding a segment without text and a
\* segment whose text still carries the escaped apostrophe
C11_Witness ==
    /\ Succeeded /\ LanguageRequested /\ req.timestamps
    /\ response[1].timestamped_captions # None
    /\ LET out == response[1].timestamped_captions[1]
       IN /\ Len(out) = 2
          /\ out[1].text = <<>>
          /\ out[2].text = <<"it", EscapedApostrophe, "s">>

\* a concatenated rendering was produced: by fetch_and_parse_captions in the
\* application, by the end of get_captions in TranscriptFetch
Rendered ==
    /\ ~req.timestamps
    /\ \/ pc = "parsed" /\ ~parsed_captions[1].raised
       \/ pc = "formatted"

\* the concatenated string
Concatenated ==
    IF req.handler = "app" THEN parsed_captions[1].ret ELSE response[1].captions[1]

\* the texts of the parsed segments, in segment order
RECURSIVE ElementTextsOf(_)
ElementTextsOf(els) ==
    IF els = <<>> THEN <<>>
    ELSE <<Get(Head(els).text, <<>>)>> \o ElementTextsOf(Tail(els))

ParsedTexts ==
    IF req.handler = "app" THEN ElementTextsOf(TextElements)
    ELSE [i \in 1..Len(parsed_captions[1].ret) |-> parsed_captions[1].ret[i].text]

\* the non-empty texts put one after the other, one space between two
RECURSIVE SpaceSeparated(_, _)
SpaceSeparated(acc, texts) ==
    IF texts = <<>> THEN acc
    ELSE IF Head(texts) = <<>> THEN SpaceSeparated(acc, Tail(texts))
    ELSE IF acc = <<>> THEN SpaceSeparated(Head(texts), Tail(texts))
    ELSE SpaceSeparated(acc \o <<Space>> \o Head(texts), Tail(texts))

\* C12: without timestamps the rendering is one string: the texts of the
\* non-empty segments in segment order with exactly one space between two
\* of them, nothing for a segment without text; only an escaped apostrophe
\* or a newline inside a text may be rendered differently.
C12_ConcatenatedIsSpaceJoined ==
    Rendered =>
        LET expected == SpaceSeparated(<<>>, ParsedTexts)
        IN /\ Len(Concatenated) = Len(expected)
           /\ \A i \in 1..Len(expected) :
                 \/ Concatenated[i] = expected[i]
                 \/ expected[i] \in {EscapedApostrophe, Newline}

\* C12 witness: the segments "Hello" and "world" rendered as "Hello world"
C12_Witness ==
    /\ Rendered
    /\ ParsedTexts = << <<"Hello">>, <<"world">> >>
    /\ Concatenated = <<"Hello", Space, "world">>

\* C13 (as claimed): in the concatenated rendering every escaped apostrophe
\* of a segment text has become an apostrophe and every newline a space; the
\* string holds neither of the two.
C13_ConcatenatedIsNormalized ==
    Rendered =>
        LET expected == SpaceSeparated(<<>>, ParsedTexts)
        IN /\ \A i \in 1..Len(Concatenated) :
                 Concatenated[i] \notin {EscapedApostrophe, Newline}
           /\ \A i \in 1..Len(expected) :
                 /\ i <= Len(Concatenated)
                 /\ expected[i] = EscapedApostrophe => Concatenated[i] = Apostrophe
                 /\ expected[i] = Newline => Concatenated[i] = Space

----------------------------------------------------------------------------
(***************************************************************************)
(* Properties of the error responses                                       *)
(***************************************************************************)

HasFailedCall(name) == \E i \in 1..Len(calls) : calls[i].name = name /\ ~calls[i].ok

HasGoodCall(name) == \E i \in 1..Len(calls) : calls[i].name = name /\ calls[i].ok

FailureStates == {"UpstreamUnavailable", "NoCaptions", "LanguageNotAvailable", "MalformedPayload"}

\* the terminal failure state a finished request is in, "none" otherwise
FailureState ==
    IF HasFailedCall("catalog") \/ HasFailedCall("player") \/ HasFailedCall("fetch")
    THEN "UpstreamUnavailable"
    ELSE IF payload # None /\ ~payload[1].well_formed THEN "MalformedPayload"
    ELSE IF metadata # None /\ catalog = <<>>
             /\ (HasGoodCall("catalog") \/ HasGoodCall("player"))
    THEN "NoCaptions"
    ELSE IF NoTrackForRequest THEN "LanguageNotAvailable"
    ELSE "none"

\* what a client can tell one error response from another by: the status
\* code and the fixed part of the message (the text of an exception is not
\* a fixed part)
ErrorKey(r) == <<r.status_code, r.error[1][1]>>

\* the error responses the two handlers build for a failure state
ErrorResponses(kind) ==
    CASE kind = "UpstreamUnavailable" ->
           {InternalError(e) : e \in {"RequestError", "ConnectionError",
                                      "CouldNotRetrieveTranscript", "FetchError"}}
      [] kind = "MalformedPayload" -> {InternalError("ParseError")}
      [] kind = "NoCaptions" ->
           {API_NotFound(NoCaptionsMessage),
            TF_NotFound(NoCaptionsMessage, DefaultMetadata(req.video_id))}
      [] kind = "LanguageNotAvailable" ->
           {API_NotFound(LanguageMessage(Get(req.language, ""))),
            TF_NotFound(LanguageMessage(Get(req.language, "")), DefaultMetadata(req.video_id))}

ErrorKeys(kind) == {ErrorKey(r) : r \in ErrorResponses(kind)}

\* a request that ended in a failure state answers with an error response
\* of that state
ErrorResponsesAsBuilt ==
    (Done /\ FailureState \in FailureStates) =>
        ErrorKey(response[1]) \in ErrorKeys(FailureState)

\* C14 (as claimed): the error of a request that ended in one of the four
\* failure states is the error of that state only: no other failure state
\* is answered with the same status code and kind of message.
C14_FailuresAreDistinct ==
    (Done /\ FailureState \in FailureStates) =>
        /\ ErrorKey(response[1]) \in ErrorKeys(FailureState)
        /\ \A other \in FailureStates \ {FailureState} :
              ErrorKey(response[1]) \notin ErrorKeys(other)

\* the upstream answered the catalog call and reported no caption track
ZeroTracks ==
    IF req.handler = "app"
    THEN player_data # None /\ player_data[1].captionTracks = <<>>
    ELSE HasGoodCall("catalog") /\ catalog = <<>>

\* C15 (as claimed): for a video without caption tracks the catalog step
\* does not raise, the request ends with the no-captions answer, and that
\* answer is not the one a failed upstream call gets.
C15_NoCaptionsIsNotAFailure ==
    (Done /\ ZeroTracks) =>
        /\ req.handler = "app" => ~get_video_details(req.video_id, player_data[1]).raised
        /\ response[1].status_code = 404
        /\ response[1].error = <<NoCaptionsMessage>>
        /\ ErrorKey(response[1]) \notin ErrorKeys("UpstreamUnavailable")

----------------------------------------------------------------------------
(***************************************************************************)
(* Properties of the retried OpenAI calls (SpecOpenAI)                     *)
(***************************************************************************)

RetriedCalls == {"summarize_text", "transcribe_audio"}

\* the outcomes of the attempts of one decorated function, in order
RECURSIVE OutcomesOf(_, _)
OutcomesOf(name, log) ==
    IF log = <<>> THEN <<>>
    ELSE IF Head(log).name = name THEN <<Head(log).outcome>> \o OutcomesOf(name, Tail(log))
    ELSE OutcomesOf(name, Tail(log))

\* the call of `name` is still between two attempts
Retrying(name) ==
    \/ name = "summarize_text" /\ pc \in {"summarize_text", "api_summarize"}
    \/ name = "summarize_text" /\ pc = "start" /\ req.handler = "summarize" /\ attempts # <<>>
    \/ name = "transcribe_audio" /\ pc = "transcribe_audio"

\* C16: a call of summarize_text or transcribe_audio makes at most 3
\* attempts, every attempt but the last ended in a rate-limit failure, and
\* after an attempt that returned, or failed in another way, or was the
\* third, no attempt is pending: a failure of another class ends the request
\* with the error it raised.
C16_BoundedRetryOnRateLimitOnly ==
    \A name \in RetriedCalls :
        LET outcomes == OutcomesOf(name, attempts)
            n == Len(outcomes)
        IN /\ n <= 3
           /\ \A i \in 1..(n - 1) : outcomes[i] = "RateLimitError"
           /\ (n > 0 /\ (outcomes[n] # "RateLimitError" \/ n = 3)) => ~Retrying(name)
           /\ (n > 0 /\ outcomes[n] \notin {"ok", "RateLimitError"}) =>
                 /\ Done
                 /\ response[1].status_code = 500
                 /\ response[1].error[1][Len(response[1].error[1])] = outcomes[n]

\* C16 witness: a call that succeeded at its third attempt after two
\* rate-limit failures
C16_Witness ==
    /\ Done
    /\ response[1].status_code = 200
    /\ \E name \in RetriedCalls :
          OutcomesOf(name, attempts) = <<"RateLimitError", "RateLimitError", "ok">>

\* a decorated call gave up after three rate-limited attempts
RetriesExhausted ==
    \E name \in RetriedCalls :
        OutcomesOf(name, attempts) = <<"RateLimitError", "RateLimitError", "RateLimitError">>

\* C17 (as claimed): when the attempts of a rate-limited call are used up,
\* the request ends with a service-unavailable error (503), neither a
\* rate-limit error (429) nor the generic internal error (500).
C17_ExhaustedIsUnavailable ==
    (Done /\ RetriesExhausted) => response[1].status_code = 503

----------------------------------------------------------------------------
(***************************************************************************)
(* Properties of the outbound calls of a caption request                   *)
(***************************************************************************)

\* the steps of the caption resolution that go to the network
ResolutionCalls == {"catalog", "player", "api", "pytube", "oembed", "page", "translate", "fetch"}

CallCount(name) == Cardinality({i \in 1..Len(calls) : calls[i].name = name})

\* C18: in one caption request the catalog call, each metadata provider,
\* the translation and the raw caption fetch are each issued at most once,
\* whether they succeed or fail.
C18_NoStepIsRetried ==
    \A name \in ResolutionCalls : CallCount(name) <= 1

\* C18 witness: a request ended after its translation call had failed, and
\* that call was issued once
C18_Witness ==
    /\ Done
    /\ HasFailedCall("translate")
    /\ CallCount("translate") = 1
    /\ HasFailedCall("pytube")

\* a string of 11 characters out of A-Z, a-z, 0-9, - and _
IsVideoId(video_id) == video_id \in VideoIds

\* C19 (as claimed): for a request whose video id is empty or malformed no
\* outbound call is issued, and the request ends with an invalid-request
\* error (400 or 422).
C19_InvalidIdIssuesNoCall ==
    ~IsVideoId(req.video_id) =>
        /\ calls = <<>>
        /\ Done => response[1].status_code \in {400, 422}

\* C20 (as claimed): no outbound call blocks the request for ever: an
\* endpoint that never answers ends the call with a timeout, so no request
\* is left waiting in a call that does not return.
C20_NoCallBlocksForever == pc # "blocked"

----------------------------------------------------------------------------
(***************************************************************************)
(* Properties of the metadata returned (SpecMeta, Spec)                    *)
(***************************************************************************)

\* C22: without a YouTube Data API credential the api provider is never
\* called, for any video id, and the first provider called is pytube.
C22_NoCredentialSkipsApi ==
    ~YOUTUBE_API_KEY =>
        /\ ~HasCall("api")
        /\ MetaCalls # <<>> => MetaCalls[1].name = "pytube"

\* C22 witness: a resolution without the credential returned after pytube
\* and oEmbed were called, pytube first
C22_Witness ==
    /\ ~YOUTUBE_API_KEY
    /\ MetaReturned
    /\ Len(MetaCalls) = 2
    /\ MetaCalls[1].name = "pytube" /\ MetaCalls[2].name = "oembed"

\* the values the pytube object can write into `result`
PytubeThumbnail == <<"https://i.ytimg.com/pytube/", "sddefault">>

\* C23 (as claimed): a provider that did not succeed contributes no field
\* to the metadata returned: after a failed pytube call the returned record
\* holds none of the values pytube read, and when no provider succeeded the
\* record holds no provider value at all.
C23_PartialResultsDiscarded ==
    (MetaReturned /\ HasFailedCall("pytube")) =>
        /\ metadata[1].thumbnail # PytubeThumbnail
        /\ metadata[1].channel_name # "pytube author"
        /\ metadata[1].channel_logo # ChannelAbout("UCpytube")

\* the thumbnails a metadata provider of TranscriptFetch.py can supply
ProviderThumbnails ==
    {PytubeThumbnail} \cup {ApiThumbnailUrl("", t) : t \in ApiThumbnailSets \ {{}}}

\* C24 (as claimed): when no provider supplied a thumbnail, the thumbnail
\* of the metadata is the convention URL of the video id, in both handlers:
\* TranscriptFetch.py returns a provider's thumbnail or the convention URL,
\* and the application returns the convention URL when the player answer
\* carries no thumbnail.
C24_ThumbnailFallsBackToConvention ==
    metadata # None =>
        /\ req.handler = "TranscriptFetch" =>
              metadata[1].thumbnail \in ProviderThumbnails \cup {DefaultThumbnail(req.video_id)}
        /\ (req.handler = "app" /\ player_data # None
              /\ player_data[1].videoDetails.thumbnails = <<>>) =>
              metadata[1].thumbnail = DefaultThumbnail(req.video_id)

\* pytube read a title other than "Unknown Title": `result` holds it from
\* the pytube step on, and the page scan, the only other writer of the
\* title, was not called
PytubeYieldedTitle ==
    /\ HasCall("pytube")
    /\ ~HasCall("page")
    /\ result.video_title # "Unknown Title"

\* C26: when pytube yields a title other than "Unknown Title", the metadata
\* is returned at once with that title and what else pytube read; neither
\* oEmbed nor the page scan is called, whether or not the thumbnail, channel
\* name and channel id reads succeeded.
C26_PytubeTitleStopsChain ==
    /\ PytubeYieldedTitle =>
          /\ MetaReturned
          /\ metadata = <<result>>
          /\ ~HasCall("oembed")
          /\ MetaCalls[Len(MetaCalls)] = Call("pytube", TRUE)
    /\ (HasCall("oembed") \/ HasCall("page")) => ~HasGoodCall("pytube")

\* C26 witness: pytube read the title while its thumbnail, channel name and
\* channel id reads failed, and the metadata was returned with that title
C26_Witness ==
    /\ PytubeYieldedTitle
    /\ MetaReturned
    /\ metadata[1].video_title = "pytube title"
    /\ metadata[1].thumbnail = DefaultThumbnail(req.video_id)
    /\ metadata[1].channel_name = "Unknown Channel"
    /\ metadata[1].channel_logo = NoChannelLogo

----------------------------------------------------------------------------
(***************************************************************************)
(* Properties of the order of the steps of a caption request (Spec)        *)
(***************************************************************************)

\* the call that fetched the caption catalog succeeded before position j
\* of the call log
CatalogFetchedBefore(j) ==
    \E i \in 1..(j - 1) : calls[i].name \in {"catalog", "player"} /\ calls[i].ok

\* the request ended on the available-languages, no-captions or
\* language-not-available path
ListAvailablePath == Done /\ response[1].available_languages # None

NotFoundPath == Done /\ response[1].status_code = 404

\* C25: the raw caption payload is fetched only after the catalog was
\* fetched and a track was selected for the requested language (in
\* TranscriptFetch.py: found, or translated successfully); the parsed and
\* formatted captions exist only after that fetch; and no fetch is issued
\* on the available-languages, no-captions and language-not-available
\* paths.
C25_FetchOnlyAfterSelection ==
    /\ \A j \in 1..Len(calls) :
          calls[j].name = "fetch" =>
              /\ CatalogFetchedBefore(j)
              /\ catalog # <<>>
              /\ LanguageRequested
              /\ transcript # None
              /\ ~HasFailedCall("translate")
              /\ \A i \in 1..Len(calls) : calls[i].name = "translate" => i < j
    /\ pc \in {"tf_select", "api_select"} => CatalogFetchedBefore(Len(calls) + 1)
    /\ pc \in {"tf_fetch", "api_fetch"} => transcript # None
    /\ parsed_captions # None => HasCall("fetch")
    /\ (Done /\ (response[1].captions # None \/ response[1].timestamped_captions # None))
          => HasGoodCall("fetch") /\ ~parsed_captions[1].raised
    /\ ListAvailablePath => ~HasCall("fetch")
    /\ NotFoundPath => ~HasCall("fetch")

\* C25 witness: a request of TranscriptFetch.py went through the catalog,
\* the translation and the fetch, in that order, and answered with captions
C25_Witness ==
    /\ Succeeded
    /\ response[1].captions # None
    /\ HasGoodCall("catalog")
    /\ HasGoodCall("translate")
    /\ calls[Len(calls)] = Call("fetch", TRUE)

----------------------------------------------------------------------------
(***************************************************************************)
(* Properties of the summarization in the captions endpoint (Spec)         *)
(***************************************************************************)

\* fetch_and_parse_captions returned the transcript
TranscriptProduced == parsed_captions # None /\ ~parsed_captions[1].raised

\* the summarization provider is called only for summarize = true,
\* timestamps = false and a transcript that was produced, and on none of
\* the paths that end without a transcript
SummarizeOnlyForPlainTranscript ==
    /\ HasCall("summarize") =>
          /\ req.handler = "app"
          /\ req.summarize
          /\ ~req.timestamps
          /\ TranscriptProduced
          /\ calls[Len(calls)].name = "summarize"
    /\ pc = "api_summarize" => (req.summarize /\ ~req.timestamps /\ TranscriptProduced)
    /\ (Done /\ (ListAvailablePath \/ NotFoundPath)) => ~HasCall("summarize")
    /\ (Done /\ response[1].timestamped_captions # None) => ~HasCall("summarize")

\* the response carries summary and token_usage next to the captions string
\* fetch_and_parse_captions returned
CarriesSummary ==
    /\ response[1].status_code = 200
    /\ response[1].summary # None
    /\ response[1].token_usage # None
    /\ response[1].captions = <<parsed_captions[1].ret>>

----------------------------------------------------------------------------
(***************************************************************************)
(* Properties of the x-api-key check (SpecAuth)                            *)
(***************************************************************************)

\* the header is absent or differs from the service's key
Unauthorized == req.x_api_key = None \/ req.x_api_key # API_KEY

\* C28 (as claimed): for a request whose x-api-key header is absent or
\* differs from the service's key, no handler step runs and no outbound
\* call is issued, and the request ends with status 403, whether or not the
\* service key is set.
C28_UnauthorizedIsForbidden ==
    Unauthorized =>
        /\ pc \in {"startup", "not_started", "received", "done"}
        /\ calls = <<>>
        /\ Done => response[1].status_code = 403

----------------------------------------------------------------------------
(***************************************************************************)
(* Properties of the upload directory (SpecUpload)                         *)
(***************************************************************************)

\* upload i was answered with the path its file was saved under
Saved(i) == uploaded[i].pc = "done" /\ uploaded[i].response.status_code = 200

\* C27 (as claimed): two uploads that were saved have distinct paths, also
\* when they carry the same client filename, and the file stored for a
\* saved upload keeps that upload's bytes: no later upload overwrites it.
C27_UploadsNeverCollide ==
    /\ \A i, j \in 1..MaxUploads :
          (Saved(i) /\ Saved(j) /\ i # j) =>
              uploaded[i].response.saved_path # uploaded[j].response.saved_path
    /\ \A i \in 1..MaxUploads :
          Saved(i) =>
              upload_dir[uploaded[i].response.saved_path] = Body(i, uploaded[i].size)

----------------------------------------------------------------------------
(***************************************************************************)
(* Properties of concurrent caption requests (SpecConcurrent)              *)
(***************************************************************************)

\* C21: whatever the interleaving of the two requests, each request is
\* answered with the response it gets when it is served alone with the same
\* parameters and the same upstream answers.
C21_ConcurrentRequestsDoNotInterfere ==
    \A i \in RequestIds :
        frames[i].pc = "done" =>
            frames[i].response = <<Alone(frames[i].req, YOUTUBE_API_KEY)>>

\* C21 witness: request 2 was answered with its own default thumbnail and
\* the defaults for its channel, while request 1 is inside
\* get_video_metadata, its `result` holding the channel name pytube read
C21_Witness ==
    /\ frames[1].pc = "meta_oembed"
    /\ results[Scope(1)].channel_name = "pytube author"
    /\ frames[2].pc = "done"
    /\ frames[2].req.handler = "TranscriptFetch"
    /\ frames[2].response[1].status_code = 200
    /\ frames[2].response[1].metadata[1].thumbnail = DefaultThumbnail(VideoIdOf(2))
    /\ frames[2].response[1].metadata[1].video_title = "Page title"

====
